---- MODULE Spec2Model ----
(***************************************************************************)
(* Model of the outage-interval reconciliation code of CHERKASY_PARSER:    *)
(* src/src/cek_scraper.py (PowercutScraper) and                            *)
(* src/src/cherkasy_telegram_parser.py.                                    *)
(*                                                                         *)
(* Representation.  A time-of-day string "HH:MM" is the number HH*100+MM   *)
(* (700 is "07:00", 2400 is "24:00").  A slot string "HH:MM-HH:MM" is the  *)
(* pair <<start, end>> of two such numbers.  A datetime is the number of   *)
(* minutes since midnight of day 0; a date string "dd.mm.yyyy" is its day  *)
(* number.  strptime and strftime are ParseHM / FormatHM.                  *)
(***************************************************************************)
EXTENDS Integers, Sequences, FiniteSets, TLC

VARIABLES
    mIn,        \* SpecMerge: the time_slots argument of combine_time_slots
    mOut,       \* SpecMerge: its result
    mAgain,     \* SpecMerge: the result of combining mOut again
    mPerm,      \* SpecMerge: a reordering of mIn
    mPermOut,   \* SpecMerge: the result of combining mPerm
    mpc,        \* SpecMerge: position, "input" | "merged" | "again" | "permuted"
    xSlots,     \* SpecModify: the time_slots of one (date, queue)
    xPrev,      \* SpecModify: time_slots before the last modify_time_slots call
    xNow,       \* SpecModify: datetime.now() of that call
    xType,      \* SpecModify: its mod_type ("none" before the first call)
    xTime,      \* SpecModify: its mod_time
    xCount,     \* SpecModify: number of calls made
    xRaised,    \* SpecModify: the last call raised
    qSlots,     \* SpecQuant: the time_slots argument of create_hours_from_schedules
    qIdx,       \* SpecQuant: number of slots its loop has processed
    qHours,     \* SpecQuant: its hours dictionary
    qBefore,    \* SpecQuant: hours before the slot processed last
    now,        \* Spec: the clock, in minutes since midnight of day 0
    batch,      \* Spec: the message widgets of the fetched page, in page order
    pc,         \* Spec: position of the run: "idle", then "scan", "mods",
                \* "scraped", "loaded", "generated", and its end "done",
                \* "exit0", "failed" or "writefailed"
    msgIdx,     \* Spec: index of the next message scrape_messages looks at
    all_schedules,          \* Spec: date -> queue -> time slots
    modifications_by_date,  \* Spec: date -> queue -> modifications, in insertion order
    modIdx,     \* Spec: index of the next modification apply_modifications applies
    applied,    \* Spec: the modification applied last and what it met (history)
    today,      \* Spec: today as scrape_messages read it, a day number
    file,       \* Spec: the output file on disk
    existing_data,  \* Spec: the document main() loaded, kind "none" for None
    data,       \* Spec: the document generate_json returned
    runs,       \* Spec: number of runs that are over
    lastBatch,  \* Spec: the page the run before fetched (history)
    lastFile,   \* Spec: the file as the run found it, left by the run before (history)
    lastDay,    \* Spec: today of the run before (history)
    pFrags,     \* SpecPut: the intervals of one group's line, as (HH:MM, HH:MM)
    pIdx,       \* SpecPut: number of intervals handed to put_interval
    pHours,     \* SpecPut: result[group_id], the hours assigned so far
    pBefore,    \* SpecPut: result[group_id] before the last put_interval call
    cPc,        \* SpecCher: position in main() and in the entry block
    cNow,       \* SpecCher: the instant the run reads the clock at
    cPosts,     \* SpecCher: the posts fetch_posts returned
    cIdx,       \* SpecCher: index of the next post of the loop
    cSchedules, \* SpecCher: schedules, date -> group -> hour -> state
    cNew,       \* SpecCher: new_json
    cFile,      \* SpecCher: OUTPUT_FILE on disk
    cStart,     \* SpecCher: OUTPUT_FILE as the run found it (history)
    cRuns       \* SpecCher: number of runs that are over

mergeVars == <<mIn, mOut, mAgain, mPerm, mPermOut, mpc>>

modifyVars == <<xSlots, xPrev, xNow, xType, xTime, xCount, xRaised>>

quantVars == <<qSlots, qIdx, qHours, qBefore>>

docVars == <<today, file, existing_data, data, runs, lastBatch, lastFile, lastDay>>

runVars ==
    <<now, batch, pc, msgIdx, all_schedules, modifications_by_date, modIdx, applied,
      docVars>>

putVars == <<pFrags, pIdx, pHours, pBefore>>

cherVars == <<cPc, cNow, cPosts, cIdx, cSchedules, cNew, cFile, cStart, cRuns>>

restVars == <<putVars, cherVars>>

vars == <<mergeVars, modifyVars, quantVars, runVars, restVars>>

(***************************************************************************)
(* Bounds and input grids                                                  *)
(***************************************************************************)
\* longest time_slots list handed to combine_time_slots in SpecMerge
MaxLen == 3

\* the day the SpecMerge lists belong to
MergeDate == 1

\* times of day the raw intervals of SpecMerge are drawn from
MergeGrid == {700, 930, 1000, 1200, 1400, 2400}

\* raw intervals: start < end, the end may be the announced "24:00"
RawIntervals == {<<s, e>> : s \in MergeGrid \ {2400}, e \in MergeGrid} \cap
                {x \in MergeGrid \X MergeGrid : x[1] < x[2]}

SeqsUpTo(S, n) == UNION {[1..k -> S] : k \in 0..n}

(***************************************************************************)
(* Time conversions                                                        *)
(***************************************************************************)
\* datetime.strptime(..., "%H:%M"): minutes since midnight
ParseHM(t) == (t \div 100) * 60 + (t % 100)

\* strptime raises ValueError outside 00:00..23:59
ValidHM(t) == t >= 0 /\ (t \div 100) <= 23 /\ (t % 100) <= 59

\* datetime.strptime(f"{date} {time}", "%d.%m.%Y %H:%M")
DateTime(date, t) == date * 1440 + ParseHM(t)

\* strftime('%H:%M') with a 12-hour clock (%I), a formatting slip
FormatHM12(dt) ==
    LET m == dt % 1440
        h == m \div 60
    IN  (IF h % 12 = 0 THEN 12 ELSE h % 12) * 100 + (m % 60)

\* strftime('%H:%M') of a datetime
FormatHM(dt) == LET m == dt % 1440 IN (m \div 60) * 100 + (m % 60)

\* if end_time == "24:00": end_time = "23:59"
EndOfDay(end_time) == IF end_time = 2400 THEN 2359 ELSE end_time

Max(a, b) == IF a >= b THEN a ELSE b

Min(a, b) == IF a <= b THEN a ELSE b

(***************************************************************************)
(* combine_time_slots                                                      *)
(***************************************************************************)
\* slots.append((start, end)) for every slot of time_slots
ParseSlots(date, time_slots) ==
    [i \in 1..Len(time_slots) |->
        <<DateTime(date, time_slots[i][1]),
          DateTime(date, EndOfDay(time_slots[i][2]))>>]

\* a slot whose strptime raises
SlotRaises(slot) == ~ValidHM(slot[1]) \/ ~ValidHM(EndOfDay(slot[2]))

\* combine_time_slots ends in the ValueError of strptime
combine_raises(time_slots) ==
    \E i \in 1..Len(time_slots) : SlotRaises(time_slots[i])

\* tuple comparison of (start, end) pairs, as list.sort() compares them
TupleLE(a, b) == a[1] < b[1] \/ (a[1] = b[1] /\ a[2] <= b[2])

RECURSIVE InsertSorted(_, _)
InsertSorted(x, s) ==
    IF s = <<>> THEN <<x>>
    ELSE IF TupleLE(x, Head(s)) THEN <<x>> \o s
    ELSE <<Head(s)>> \o InsertSorted(x, Tail(s))

RECURSIVE SortRec(_)
SortRec(s) == IF s = <<>> THEN <<>> ELSE InsertSorted(Head(s), SortRec(Tail(s)))

\* the list left in input order
SortSkipped(slots) == slots

\* slots.sort()
SortSlots(slots) == SortRec(slots)

\* the merge test with a strict comparison
TouchesStrict(start, current_end) == start < current_end

\* if start <= current_end
Touches(start, current_end) == start <= current_end

\* current_end = max(current_end, end)
ExtendEnd(current_end, end) == Max(current_end, end)

\* the sweep over slots[1:]; cur is (current_start, current_end)
RECURSIVE MergeSweep(_, _, _)
MergeSweep(rest, cur, merged_slots) ==
    IF rest = <<>> THEN Append(merged_slots, cur)
    ELSE LET nx == Head(rest) IN
         IF Touches(nx[1], cur[2])
         THEN MergeSweep(Tail(rest), <<cur[1], ExtendEnd(cur[2], nx[2])>>, merged_slots)
         ELSE MergeSweep(Tail(rest), nx, Append(merged_slots, cur))

\* combined_slots: the merged datetimes written back as "HH:MM-HH:MM"
FormatSlots(merged_slots) ==
    [i \in 1..Len(merged_slots) |->
        <<FormatHM(merged_slots[i][1]), FormatHM(merged_slots[i][2])>>]

combine_time_slots(date, time_slots) ==
    IF time_slots = <<>> THEN <<>>
    ELSE LET slots == SortSlots(ParseSlots(date, time_slots))
         IN  FormatSlots(MergeSweep(Tail(slots), Head(slots), <<>>))

(***************************************************************************)
(* SpecMerge: combine_time_slots applied to every bounded list             *)
(***************************************************************************)
Perms(s) ==
    {[i \in 1..Len(s) |-> s[p[i]]] :
        p \in {f \in [1..Len(s) -> 1..Len(s)] :
                 \A i, j \in 1..Len(s) : f[i] = f[j] => i = j}}

MergeIdle ==
    /\ mIn = <<>>
    /\ mOut = <<>>
    /\ mAgain = <<>>
    /\ mPerm = <<>>
    /\ mPermOut = <<>>
    /\ mpc = "off"

ModifyIdle ==
    /\ xSlots = <<>>
    /\ xPrev = <<>>
    /\ xNow = 0
    /\ xType = "off"
    /\ xTime = 0
    /\ xCount = 0
    /\ xRaised = FALSE

QuantIdle ==
    /\ qSlots = <<>>
    /\ qIdx = 0
    /\ qHours = <<>>
    /\ qBefore = <<>>

\* a dictionary with no key
EmptyMap == [k \in {} |-> <<>>]

\* no modification applied yet
NoneApplied ==
    [kind |-> "none", data |-> <<>>, date |-> 0, queue |-> 0, src |-> 0,
     present |-> FALSE, before |-> <<>>]

RunIdle ==
    /\ now = 0
    /\ batch = <<>>
    /\ pc = "off"
    /\ msgIdx = 0
    /\ all_schedules = EmptyMap
    /\ modifications_by_date = <<>>
    /\ modIdx = 0
    /\ applied = NoneApplied
    /\ today = 0
    /\ file = <<>>
    /\ existing_data = <<>>
    /\ data = <<>>
    /\ runs = 0
    /\ lastBatch = <<>>
    /\ lastFile = <<>>
    /\ lastDay = 0

PutIdle ==
    /\ pFrags = <<>>
    /\ pIdx = 0
    /\ pHours = EmptyMap
    /\ pBefore = EmptyMap

CherIdle ==
    /\ cPc = "off"
    /\ cNow = 0
    /\ cPosts = <<>>
    /\ cIdx = 0
    /\ cSchedules = <<>>
    /\ cNew = <<>>
    /\ cFile = <<>>
    /\ cStart = <<>>
    /\ cRuns = 0

RestIdle == PutIdle /\ CherIdle

MergeInit ==
    /\ mIn \in SeqsUpTo(RawIntervals, MaxLen)
    /\ mOut = <<>>
    /\ mAgain = <<>>
    /\ mPerm = <<>>
    /\ mPermOut = <<>>
    /\ mpc = "input"
    /\ ModifyIdle
    /\ QuantIdle
    /\ RunIdle
    /\ RestIdle

\* combined = combine_time_slots(date, time_slots)
MergeOnce ==
    /\ mpc = "input"
    /\ mOut' = combine_time_slots(MergeDate, mIn)
    /\ mpc' = "merged"
    /\ UNCHANGED <<mIn, mAgain, mPerm, mPermOut, modifyVars, quantVars, runVars, restVars>>

\* combine_time_slots(date, combined)
MergeAgain ==
    /\ mpc = "merged"
    /\ mAgain' = combine_time_slots(MergeDate, mOut)
    /\ mpc' = "again"
    /\ UNCHANGED <<mIn, mOut, mPerm, mPermOut, modifyVars, quantVars, runVars, restVars>>

\* combine_time_slots(date, P) for a reordering P of time_slots
MergePermuted ==
    /\ mpc = "merged"
    /\ \E p \in Perms(mIn) :
          /\ mPerm' = p
          /\ mPermOut' = combine_time_slots(MergeDate, p)
    /\ mpc' = "permuted"
    /\ UNCHANGED <<mIn, mOut, mAgain, modifyVars, quantVars, runVars, restVars>>

MergeNext == MergeOnce \/ MergeAgain \/ MergePermuted

SpecMerge == MergeInit /\ [][MergeNext]_vars

(***************************************************************************)
(* Claims about combine_time_slots                                         *)
(***************************************************************************)
\* minutes of the day at which an interval of the grid can start or end
ProbeMinutes == {ParseHM(t) : t \in MergeGrid \cup {2359}}

\* minute p lies in the union of the slots, "24:00" being minute 1440
CoversAnnounced(time_slots, p) ==
    \E i \in 1..Len(time_slots) :
        ParseHM(time_slots[i][1]) <= p /\ p < ParseHM(time_slots[i][2])

\* minute p lies in the union of the slots, an end of "24:00" read as "23:59"
CoversClipped(time_slots, p) ==
    \E i \in 1..Len(time_slots) :
        ParseHM(time_slots[i][1]) <= p /\ p < ParseHM(EndOfDay(time_slots[i][2]))

SortedByStart(time_slots) ==
    \A i \in 1..(Len(time_slots) - 1) : time_slots[i][1] <= time_slots[i + 1][1]

StrictGaps(time_slots) ==
    \A i \in 1..(Len(time_slots) - 1) : time_slots[i + 1][1] > time_slots[i][2]

\* C1 as stated: the output is sorted by start, consecutive output intervals
\* are separated by a strict gap, the union of the output equals the union
\* of the input (an end of 24:00 being the end of the day), and an empty
\* input gives an empty cover.
C1_MinimalCoverAsStated ==
    mpc = "merged" =>
        /\ SortedByStart(mOut)
        /\ StrictGaps(mOut)
        /\ \A p \in ProbeMinutes : CoversAnnounced(mOut, p) <=> CoversAnnounced(mIn, p)
        /\ (mIn = <<>> => mOut = <<>>)

\* C1 amended: the same, the union of the output being the union of the
\* input with every end of 24:00 read as 23:59 (the last minute of the day
\* is not covered); the output is empty exactly when the input is.
C1_MinimalCover ==
    mpc = "merged" =>
        /\ SortedByStart(mOut)
        /\ StrictGaps(mOut)
        /\ \A p \in ProbeMinutes : CoversAnnounced(mOut, p) <=> CoversClipped(mIn, p)
        /\ (mIn = <<>> <=> mOut = <<>>)

\* Scenario A, and a back-to-back pair merged into one interval
C1_Witness ==
    /\ mpc = "merged"
    /\ mIn = << <<700, 1000>>, <<930, 1200>> >>
    /\ mOut = << <<700, 1200>> >>

\* C2: combining the result of combine_time_slots again gives the same list,
\* also for lists holding intervals that end at 24:00.
C2_Idempotent == mpc = "again" => mAgain = mOut

C2_Witness ==
    /\ mpc = "again"
    /\ Len(mIn) = 3
    /\ Len(mOut) = 2
    /\ \E i \in 1..Len(mIn) : mIn[i][2] = 2400
    /\ mOut[2][2] = 2359

\* C3: every reordering of the input list gives the same combined list.
C3_OrderIndependent == mpc = "permuted" => mPermOut = mOut

C3_Witness ==
    /\ mpc = "permuted"
    /\ Len(mIn) = 3
    /\ mPerm # mIn
    /\ mPerm # SortSlots(mIn)
    /\ Len(mOut) = 1

(***************************************************************************)
(* modify_time_slots                                                       *)
(***************************************************************************)
\* the lookback of the "just ended" test, in seconds
LookbackSeconds == 7200

\* if slot_start <= current_time <= slot_end
InProgress(slot_start, current_time, slot_end) ==
    slot_start <= current_time /\ current_time <= slot_end

\* the lookback left out: any slot that has ended
JustEndedAnyAge(current_time, slot_end) == current_time > slot_end

\* elif current_time > slot_end and (current_time - slot_end).total_seconds() < 7200
JustEnded(current_time, slot_end) ==
    current_time > slot_end /\ (current_time - slot_end) * 60 < LookbackSeconds

\* the prolong loop from index idx on; slot_to_modify = 0 is None, the
\* except branch skips a slot whose strptime raises
RECURSIVE ProlongScan(_, _, _, _, _)
ProlongScan(time_slots, date, current_time, idx, slot_to_modify) ==
    IF idx > Len(time_slots) THEN slot_to_modify
    ELSE IF ~ValidHM(time_slots[idx][1]) \/ ~ValidHM(time_slots[idx][2])
    THEN ProlongScan(time_slots, date, current_time, idx + 1, slot_to_modify)
    ELSE LET slot_start == DateTime(date, time_slots[idx][1])
             slot_end == DateTime(date, time_slots[idx][2])
         IN  IF InProgress(slot_start, current_time, slot_end) THEN idx
             ELSE IF JustEnded(current_time, slot_end)
             THEN ProlongScan(time_slots, date, current_time, idx + 1, idx)
             ELSE ProlongScan(time_slots, date, current_time, idx + 1, slot_to_modify)

\* slot_to_modify of the prolong branch, with its default len(time_slots) - 1
ProlongTarget(time_slots, date, current_time) ==
    LET found == ProlongScan(time_slots, date, current_time, 1, 0)
    IN  IF found = 0 THEN Len(time_slots) ELSE found

\* the test with a strict comparison
NotEndedStrict(current_time, slot_end) == current_time < slot_end

\* if current_time <= slot_end
NotEnded(current_time, slot_end) == current_time <= slot_end

\* the early_start loop from index idx on; 0 is None
RECURSIVE EarlyScan(_, _, _, _)
EarlyScan(time_slots, date, current_time, idx) ==
    IF idx > Len(time_slots) THEN 0
    ELSE IF ~ValidHM(time_slots[idx][1]) \/ ~ValidHM(time_slots[idx][2])
    THEN EarlyScan(time_slots, date, current_time, idx + 1)
    ELSE IF NotEnded(current_time, DateTime(date, time_slots[idx][2])) THEN idx
    ELSE EarlyScan(time_slots, date, current_time, idx + 1)

\* slot_to_modify of the early_start branch, with its default 0
EarlyTarget(time_slots, date, current_time) ==
    LET found == EarlyScan(time_slots, date, current_time, 1)
    IN  IF found = 0 THEN 1 ELSE found

\* modified[slot_to_modify] = f"{start_time}-{mod_time}"
ReplaceEnd(time_slots, idx, mod_time) ==
    [time_slots EXCEPT ![idx] = <<time_slots[idx][1], mod_time>>]

\* modified[slot_to_modify] = f"{mod_time}-{end_time}"
ReplaceStart(time_slots, idx, mod_time) ==
    [time_slots EXCEPT ![idx] = <<mod_time, time_slots[idx][2]>>]

\* the list modified; current_time is datetime.now(), read at the top of the call
ModifiedSlots(time_slots, mod_type, mod_time, date, current_time) ==
    IF mod_type = "prolong"
    THEN ReplaceEnd(time_slots, ProlongTarget(time_slots, date, current_time), mod_time)
    ELSE IF mod_type = "early_start"
    THEN ReplaceStart(time_slots, EarlyTarget(time_slots, date, current_time), mod_time)
    ELSE time_slots

modify_time_slots(time_slots, mod_type, mod_time, date, current_time) ==
    IF time_slots = <<>> THEN time_slots
    ELSE combine_time_slots(date,
            ModifiedSlots(time_slots, mod_type, mod_time, date, current_time))

\* the call ends in the ValueError of the final combine_time_slots
modify_raises(time_slots, mod_type, mod_time, date, current_time) ==
    /\ time_slots # <<>>
    /\ combine_raises(ModifiedSlots(time_slots, mod_type, mod_time, date, current_time))

(***************************************************************************)
(* SpecModify: modify_time_slots applied, one call after another, to the   *)
(* merged interval set of one (date, queue)                                *)
(***************************************************************************)
\* number of modify_time_slots calls made on one interval set
MaxCalls == 2

\* longest list of base intervals the interval set is merged from
MaxBase == 2

\* times of day the base intervals are drawn from
ModifyGrid == {700, 1000, 1100, 1400, 1800, 2400}

ModifyIntervals ==
    {x \in (ModifyGrid \ {2400}) \X ModifyGrid : x[1] < x[2]}

\* the day of the interval set
ModifyDate == 1

\* the mod_time values of the calls
ModifyTimes == {600, 945, 1200, 1500, 2400}

\* the instants the calls are made at: the day before, and on the day before
\* the first slot, inside a slot, at its end, less than and exactly two hours
\* after it, and late in the evening
ModifyNows ==
    {DateTime(ModifyDate - 1, 2300)} \cup
    {DateTime(ModifyDate, t) : t \in {600, 900, 1000, 1130, 1200, 1530, 2200}}

ModifyInit ==
    /\ xSlots \in {combine_time_slots(ModifyDate, l) :
                      l \in SeqsUpTo(ModifyIntervals, MaxBase) \ {<<>>}}
    /\ xPrev = <<>>
    /\ xNow \in ModifyNows
    /\ xType = "none"
    /\ xTime = 0
    /\ xCount = 0
    /\ xRaised = FALSE
    /\ MergeIdle
    /\ QuantIdle
    /\ RunIdle
    /\ RestIdle

\* modified_slots = self.modify_time_slots(existing_slots, mod_type, mod_data, date)
ModifyCall ==
    /\ xCount < MaxCalls
    /\ ~xRaised
    /\ \E mod_type \in {"prolong", "early_start"}, mod_time \in ModifyTimes :
          /\ ~modify_raises(xSlots, mod_type, mod_time, ModifyDate, xNow)
          /\ xType' = mod_type
          /\ xTime' = mod_time
          /\ xSlots' = modify_time_slots(xSlots, mod_type, mod_time, ModifyDate, xNow)
    /\ xPrev' = xSlots
    /\ xCount' = xCount + 1
    /\ UNCHANGED <<xNow, xRaised, mergeVars, quantVars, runVars, restVars>>

\* the same call ending in an exception: nothing is returned
ModifyCallRaises ==
    /\ xCount < MaxCalls
    /\ ~xRaised
    /\ \E mod_type \in {"prolong", "early_start"}, mod_time \in ModifyTimes :
          /\ modify_raises(xSlots, mod_type, mod_time, ModifyDate, xNow)
          /\ xType' = mod_type
          /\ xTime' = mod_time
    /\ xRaised' = TRUE
    /\ xPrev' = xSlots
    /\ xCount' = xCount + 1
    /\ UNCHANGED <<xSlots, xNow, mergeVars, quantVars, runVars, restVars>>

ModifyNext == ModifyCall \/ ModifyCallRaises

SpecModify == ModifyInit /\ [][ModifyNext]_vars

(***************************************************************************)
(* Claims about modify_time_slots                                          *)
(***************************************************************************)
\* every interval of the set has start <= end
WellFormed(time_slots) ==
    \A i \in 1..Len(time_slots) : time_slots[i][1] <= time_slots[i][2]

SlotStart(time_slots, date, i) == DateTime(date, time_slots[i][1])

SlotEnd(time_slots, date, i) == DateTime(date, time_slots[i][2])

\* the intervals in progress at the instant
InProgressSet(time_slots, date, instant) ==
    {i \in 1..Len(time_slots) :
        SlotStart(time_slots, date, i) <= instant /\ instant <= SlotEnd(time_slots, date, i)}

\* the intervals that ended less than two hours before the instant
RecentSet(time_slots, date, instant) ==
    {i \in 1..Len(time_slots) :
        SlotEnd(time_slots, date, i) < instant /\ instant - SlotEnd(time_slots, date, i) < 120}

\* the targets the priority rule of the prolong claim allows
ProlongChoices(time_slots, date, instant) ==
    IF InProgressSet(time_slots, date, instant) # {}
    THEN InProgressSet(time_slots, date, instant)
    ELSE IF RecentSet(time_slots, date, instant) # {}
    THEN {i \in RecentSet(time_slots, date, instant) :
            \A j \in RecentSet(time_slots, date, instant) :
                SlotEnd(time_slots, date, j) <= SlotEnd(time_slots, date, i)}
    ELSE {Len(time_slots)}

\* C8: a prolong(new_end) on a set of at least one interval (each with
\* start <= end) replaces the end of the interval in progress at the instant; else of
\* the interval with the most recent end among those that ended less than two
\* hours before the instant; else of the last interval; the others are kept and the
\* set is merged again.
C8_ProlongTarget ==
    (xType = "prolong" /\ ~xRaised /\ WellFormed(xPrev)) =>
        /\ Cardinality(ProlongChoices(xPrev, ModifyDate, xNow)) = 1
        /\ \A i \in ProlongChoices(xPrev, ModifyDate, xNow) :
              xSlots = combine_time_slots(ModifyDate,
                          [k \in 1..Len(xPrev) |->
                              IF k = i THEN <<xPrev[k][1], xTime>> ELSE xPrev[k]])

\* Scenario B
C8_Witness ==
    /\ xType = "prolong"
    /\ xPrev = << <<700, 1000>> >>
    /\ xNow = DateTime(ModifyDate, 900)
    /\ xTime = 1200
    /\ xSlots = << <<700, 1200>> >>

\* a prolong that falls back on the interval that ended less than two hours ago
C8_WitnessRecent ==
    /\ xType = "prolong"
    /\ xPrev = << <<700, 1000>>, <<1400, 1800>> >>
    /\ xNow = DateTime(ModifyDate, 1130)
    /\ xTime = 1200
    /\ xSlots = << <<700, 1200>>, <<1400, 1800>> >>

\* the first interval whose end is >= the instant, or the first one when all ended
EarlyChoice(time_slots, date, instant) ==
    LET open == {i \in 1..Len(time_slots) : SlotEnd(time_slots, date, i) >= instant}
    IN  IF open = {} THEN 1 ELSE CHOOSE i \in open : \A j \in open : i <= j

\* C9: an early_start(new_start) on a set of at least one interval replaces
\* the start of the first interval, in sort order, whose end is >= now, or of
\* the first interval when every interval has ended; the others are kept and
\* the set is merged again.
C9_EarlyStartTarget ==
    (xType = "early_start" /\ ~xRaised) =>
        xSlots = combine_time_slots(ModifyDate,
                    [k \in 1..Len(xPrev) |->
                        IF k = EarlyChoice(xPrev, ModifyDate, xNow)
                        THEN <<xTime, xPrev[k][2]>> ELSE xPrev[k]])

\* the first interval has ended, the second is the target
C9_Witness ==
    /\ xType = "early_start"
    /\ xPrev = << <<700, 1000>>, <<1400, 1800>> >>
    /\ xNow = DateTime(ModifyDate, 1130)
    /\ xTime = 1200
    /\ xSlots = << <<700, 1000>>, <<1200, 1800>> >>

(***************************************************************************)
(* create_hours_from_schedules                                             *)
(***************************************************************************)
\* the tokens a bucket of a state vector holds
HourStates == {"yes", "no", "first", "second"}

\* the keys "1".."24" of an hours dictionary, as numbers
HourKeys == 1..24

\* create_default_hours
create_default_hours == [k \in HourKeys |-> "yes"]

\* str(hour + 1)
HourKey(hour) == hour + 1

\* the first-half test with the midpoint excluded
InFirstHalfStrict(overlap_start, overlap_end, hour_mid) ==
    overlap_start < hour_mid /\ overlap_end < hour_mid

\* if overlap_start < hour_mid and overlap_end <= hour_mid
InFirstHalf(overlap_start, overlap_end, hour_mid) ==
    overlap_start < hour_mid /\ overlap_end <= hour_mid

\* elif overlap_start >= hour_mid and overlap_end > hour_mid
InSecondHalf(overlap_start, overlap_end, hour_mid) ==
    overlap_start >= hour_mid /\ overlap_end > hour_mid

\* the body with the first-half branch storing "first" whatever the bucket held
HourAfterOverwrite(state, outage_start, outage_end, hour) ==
    LET hour_start == hour * 60
        hour_end == (hour + 1) * 60
        hour_mid == hour * 60 + 30
        overlap_start == Max(outage_start, hour_start)
        overlap_end == Min(outage_end, hour_end)
        overlap_duration == overlap_end - overlap_start
    IN  IF outage_end <= hour_start \/ outage_start >= hour_end THEN state
        ELSE IF overlap_duration >= 60 THEN "no"
        ELSE IF overlap_duration > 0
        THEN IF InFirstHalf(overlap_start, overlap_end, hour_mid) THEN "first"
             ELSE IF InSecondHalf(overlap_start, overlap_end, hour_mid)
             THEN (IF state = "yes" THEN "second"
                   ELSE IF state = "first" THEN "no" ELSE state)
             ELSE "no"
        ELSE state

\* the body of "for hour in range(24)" for one slot: the value of
\* hours[str(hour + 1)] after it, state being the value before; times are in
\* minutes (outage_start * 60, outage_end * 60)
HourAfter(state, outage_start, outage_end, hour) ==
    LET hour_start == hour * 60
        hour_end == (hour + 1) * 60
        hour_mid == hour * 60 + 30
        overlap_start == Max(outage_start, hour_start)
        overlap_end == Min(outage_end, hour_end)
        overlap_duration == overlap_end - overlap_start
    IN  IF outage_end <= hour_start \/ outage_start >= hour_end THEN state
        ELSE IF overlap_duration >= 60 THEN "no"
        ELSE IF overlap_duration > 0
        THEN IF InFirstHalf(overlap_start, overlap_end, hour_mid)
             THEN (IF state = "yes" THEN "first"
                   ELSE IF state = "second" THEN "no" ELSE state)
             ELSE IF InSecondHalf(overlap_start, overlap_end, hour_mid)
             THEN (IF state = "yes" THEN "second"
                   ELSE IF state = "first" THEN "no" ELSE state)
             ELSE "no"
        ELSE state

\* one pass of "for slot in time_slots": hours after the slot
HoursAfterSlot(hours, slot) ==
    [k \in DOMAIN hours |->
        IF \E hour \in 0..23 : HourKey(hour) = k
        THEN HourAfter(hours[k], ParseHM(slot[1]), ParseHM(slot[2]),
                       CHOOSE hour \in 0..23 : HourKey(hour) = k)
        ELSE hours[k]]

RECURSIVE HoursFold(_, _)
HoursFold(hours, time_slots) ==
    IF time_slots = <<>> THEN hours
    ELSE HoursFold(HoursAfterSlot(hours, Head(time_slots)), Tail(time_slots))

create_hours_from_schedules(time_slots) == HoursFold(create_default_hours, time_slots)

(***************************************************************************)
(* SpecQuant: create_hours_from_schedules, slot by slot                    *)
(***************************************************************************)
\* longest time_slots list quantized
MaxSlots == 2

\* times of day the quantized intervals are drawn from
QuantGrid == {0, 700, 715, 730, 745, 800, 900, 2359, 2400}

QuantIntervals == {x \in (QuantGrid \ {2400}) \X QuantGrid : x[1] < x[2]}

QuantInit ==
    /\ qSlots \in SeqsUpTo(QuantIntervals, MaxSlots)
    /\ qIdx = 0
    /\ qHours = create_default_hours
    /\ qBefore = create_default_hours
    /\ MergeIdle
    /\ ModifyIdle
    /\ RunIdle
    /\ RestIdle

\* one iteration of "for slot in time_slots"
QuantSlot ==
    /\ qIdx < Len(qSlots)
    /\ qBefore' = qHours
    /\ qHours' = HoursAfterSlot(qHours, qSlots[qIdx + 1])
    /\ qIdx' = qIdx + 1
    /\ UNCHANGED <<qSlots, mergeVars, modifyVars, runVars, restVars>>

QuantNext == QuantSlot

SpecQuant == QuantInit /\ [][QuantNext]_vars

(***************************************************************************)
(* Claims about create_hours_from_schedules                                *)
(***************************************************************************)
\* what the quantization claim gives bucket hour + 1 for the one interval
\* [s, e), in minutes
SingleBucket(s, e, hour) ==
    LET hs == hour * 60
        he == (hour + 1) * 60
        mid == hour * 60 + 30
        lo == Max(s, hs)
        hi == Min(e, he)
    IN  IF lo >= hi THEN "yes"
        ELSE IF lo = hs /\ hi = he THEN "no"
        ELSE IF hi <= mid THEN "first"
        ELSE IF lo >= mid THEN "second"
        ELSE "no"

\* C10: the vector has exactly the keys "1".."24"; for a single interval,
\* bucket h+1 is yes without overlap, no when the hour is covered, first when
\* the overlap lies in [h, h+0.5], second when it lies in [h+0.5, h+1], and
\* no when it straddles the midpoint.
C10_SingleInterval ==
    /\ DOMAIN qHours = HourKeys
    /\ (Len(qSlots) = 1 /\ qIdx = 1) =>
          \A hour \in 0..23 :
              qHours[hour + 1] =
                  SingleBucket(ParseHM(qSlots[1][1]), ParseHM(qSlots[1][2]), hour)

\* Scenario D
C10_Witness ==
    /\ qSlots = << <<700, 730>> >>
    /\ qIdx = 1
    /\ qHours[8] = "first"
    /\ \A k \in HourKeys \ {8} : qHours[k] = "yes"

\* an interval that straddles the midpoint of its hour
C10_WitnessStraddle ==
    /\ qSlots = << <<715, 745>> >>
    /\ qIdx = 1
    /\ qHours[8] = "no"
    /\ \A k \in HourKeys \ {8} : qHours[k] = "yes"

\* bucket value b is value a or a demotion of it: yes -> first, second, no
\* and first, second -> no
Demoted(a, b) ==
    \/ a = b
    \/ a = "yes"
    \/ (a \in {"first", "second"} /\ b = "no")

\* C11: while the intervals are processed one after another every bucket
\* only moves along yes -> {first, second} -> no: the vector after the
\* intervals processed so far is, bucket by bucket, the vector after any
\* prefix of them (the one before the last interval included) or a demotion
\* of it
C11_Monotonic ==
    /\ \A k \in HourKeys :
          qIdx > 0 => Demoted(qBefore[k], qHours[k])
    /\ \A j \in 0..qIdx : \A k \in HourKeys :
          Demoted(create_hours_from_schedules(SubSeq(qSlots, 1, j))[k], qHours[k])

\* 07:00-07:15 then 07:45-08:00: bucket 8 went yes -> first -> no
C11_Witness ==
    /\ qSlots = << <<700, 715>>, <<745, 800>> >>
    /\ qIdx = 2
    /\ qBefore[8] = "first"
    /\ qHours[8] = "no"

(***************************************************************************)
(* scrape_messages and apply_modifications                                 *)
(*                                                                         *)
(* A message widget is [ts, date, sched]: ts is the datetime attribute of  *)
(* the widget (NoTs when extract_message_timestamp returns None), date the *)
(* day extract_date finds in the text (NoDate when it finds none), sched   *)
(* the result of extract_all_schedules, a sequence of <<queue, items>> in  *)
(* insertion order.  An item is a regular slot [kind |-> "slot", data |->  *)
(* <<start, end>>] or a "MOD:kind:data" string [kind, data], its data a    *)
(* tuple: <<time>>, or <<start, end>> for an additional outage.  A queue   *)
(* number is written without its point (11 is 1.1).                        *)
(***************************************************************************)
NoTs == -1

NoDate == -1

\* today = datetime.now(kyiv_tz).replace(hour=0, minute=0, ...), as a day
Today(clock) == clock \div 1440

\* a gate on the age of the message, not on its day: posted in the last 12 hours
is_message_of_last_hours(message_timestamp, clock) ==
    /\ message_timestamp <= clock
    /\ clock < message_timestamp + 720

\* is_message_from_today: today <= message_timestamp < tomorrow
is_message_from_today(message_timestamp, clock) ==
    /\ Today(clock) * 1440 <= message_timestamp
    /\ message_timestamp < (Today(clock) + 1) * 1440

\* the gate with a missing timestamp taken as today's
AcceptsModsNoTs(message_timestamp, clock) ==
    message_timestamp = NoTs \/ is_message_from_today(message_timestamp, clock)

\* if message_timestamp and self.is_message_from_today(message_timestamp, kyiv_tz)
AcceptsMods(message_timestamp, clock) ==
    message_timestamp # NoTs /\ is_message_from_today(message_timestamp, clock)

\* slot.startswith("MOD:")
IsMod(item) == item.kind # "slot"

RECURSIVE SelectItems(_, _)
SelectItems(items, wantMods) ==
    IF items = <<>> THEN <<>>
    ELSE IF IsMod(Head(items)) = wantMods
    THEN <<Head(items)>> \o SelectItems(Tail(items), wantMods)
    ELSE SelectItems(Tail(items), wantMods)

\* regular_slots of one queue, as slots
RegularSlots(items) ==
    LET r == SelectItems(items, FALSE) IN [i \in 1..Len(r) |-> r[i].data]

\* has_modifications
HasModifications(sched) ==
    \E i \in 1..Len(sched) : \E j \in 1..Len(sched[i][2]) : IsMod(sched[i][2][j])

\* the date the message is filed under: extract_date, else today when the
\* message holds a modification
MessageDate(msg, clock) ==
    IF msg.date = NoDate /\ msg.sched # <<>> /\ HasModifications(msg.sched)
    THEN Today(clock)
    ELSE msg.date

\* if date and schedules_by_queue, and date_obj >= today
MessageCounts(msg, clock) ==
    /\ MessageDate(msg, clock) # NoDate
    /\ msg.sched # <<>>
    /\ MessageDate(msg, clock) >= Today(clock)

\* dict[key] = value
Put(map, key, value) ==
    [k \in DOMAIN map \cup {key} |-> IF k = key THEN value ELSE map[k]]

\* the time slots of (date, queue), none when there is no entry
SlotsOf(schedules, date, queue) ==
    IF date \in DOMAIN schedules /\ queue \in DOMAIN schedules[date]
    THEN schedules[date][queue]
    ELSE <<>>

\* if date not in all_schedules: all_schedules[date] = {}
EnsureDate(schedules, date) ==
    IF date \in DOMAIN schedules THEN schedules ELSE Put(schedules, date, EmptyMap)

\* index of the date in modifications_by_date, 0 when absent
RECURSIVE DateIndex(_, _, _)
DateIndex(mods, date, i) ==
    IF i > Len(mods) THEN 0
    ELSE IF mods[i].date = date THEN i
    ELSE DateIndex(mods, date, i + 1)

\* index of the queue in one date's modifications, 0 when absent
RECURSIVE QueueIndex(_, _, _)
QueueIndex(queues, queue, i) ==
    IF i > Len(queues) THEN 0
    ELSE IF queues[i].queue = queue THEN i
    ELSE QueueIndex(queues, queue, i + 1)

\* if date not in modifications_by_date: modifications_by_date[date] = {}
EnsureModDate(mods, date) ==
    IF DateIndex(mods, date, 1) = 0
    THEN Append(mods, [date |-> date, queues |-> <<>>])
    ELSE mods

\* modifications_by_date[date][queue_num].extend(new), the list created when absent
ExtendMods(mods, date, queue, new) ==
    LET d == DateIndex(mods, date, 1)
        q == QueueIndex(mods[d].queues, queue, 1)
    IN  IF q = 0
        THEN [mods EXCEPT ![d].queues = Append(@, [queue |-> queue, mods |-> new])]
        ELSE [mods EXCEPT ![d].queues[q].mods = @ \o new]

\* the modifications of a queue's items that pass the gate, tagged with the
\* index of their message (src is history, not program state)
AcceptedMods(items, msg, src, clock) ==
    IF AcceptsMods(msg.ts, clock)
    THEN LET m == SelectItems(items, TRUE)
         IN  [i \in 1..Len(m) |-> [kind |-> m[i].kind, data |-> m[i].data, src |-> src]]
    ELSE <<>>

\* the body of "for queue_num, time_slots in schedules_by_queue.items()",
\* from entry i of sched on; st is [sched, mods]
RECURSIVE ScanQueues(_, _, _, _, _, _)
ScanQueues(st, msg, date, src, clock, i) ==
    IF i > Len(msg.sched) THEN st
    ELSE LET queue == msg.sched[i][1]
             items == msg.sched[i][2]
             regular == RegularSlots(items)
             combined == combine_time_slots(date, regular)
             mods == AcceptedMods(items, msg, src, clock)
             sched1 == IF regular # <<>> /\ combined # <<>>
                       THEN [st.sched EXCEPT ![date] = Put(@, queue, combined)]
                       ELSE st.sched
             mods1 == IF mods # <<>>
                      THEN ExtendMods(st.mods, date, queue, mods)
                      ELSE st.mods
         IN  ScanQueues([sched |-> sched1, mods |-> mods1], msg, date, src, clock, i + 1)

\* one iteration of "for message_widget in message_widgets"
ScanMessageStep(st, msg, src, clock) ==
    IF MessageCounts(msg, clock)
    THEN ScanQueues([sched |-> EnsureDate(st.sched, MessageDate(msg, clock)),
                     mods |-> EnsureModDate(st.mods, MessageDate(msg, clock))],
                    msg, MessageDate(msg, clock), src, clock, 1)
    ELSE st

\* the modifications in the order apply_modifications meets them:
\* for date ..., for queue_num ..., for mod in mod_list
RECURSIVE FlatQueues(_, _)
FlatQueues(date, queues) ==
    IF queues = <<>> THEN <<>>
    ELSE [i \in 1..Len(Head(queues).mods) |->
             [date |-> date, queue |-> Head(queues).queue, mod |-> Head(queues).mods[i]]]
         \o FlatQueues(date, Tail(queues))

\* the modifications met last to first
RECURSIVE FlatModsReversed(_)
FlatModsReversed(mods) ==
    IF mods = <<>> THEN <<>>
    ELSE FlatModsReversed(Tail(mods))
         \o [i \in 1..Len(FlatQueues(Head(mods).date, Head(mods).queues)) |->
                FlatQueues(Head(mods).date, Head(mods).queues)[
                    Len(FlatQueues(Head(mods).date, Head(mods).queues)) + 1 - i]]

RECURSIVE FlatMods(_)
FlatMods(mods) ==
    IF mods = <<>> THEN <<>>
    ELSE FlatQueues(Head(mods).date, Head(mods).queues) \o FlatMods(Tail(mods))

\* the branch of the if / elif chain with "additional" tested after the entry
BranchOfEntryFirst(mod_type, present) ==
    IF present THEN (IF mod_type = "additional" THEN "additional" ELSE "modify")
    ELSE IF mod_type = "cancel" THEN "cancel"
    ELSE "skip"

\* the branch of the if / elif chain of apply_modifications that runs:
\* mod_type == 'additional', elif queue_num in schedules[date],
\* elif mod_type == 'cancel', else nothing
BranchOf(mod_type, present) ==
    IF mod_type = "additional" THEN "additional"
    ELSE IF present THEN "modify"
    ELSE IF mod_type = "cancel" THEN "cancel"
    ELSE "skip"

\* the body with an entry created for a group that has none before the
\* modification is handed to modify_time_slots, which returns the empty list
ApplyOneCreating(schedules, date, queue, mod, clock) ==
    LET sch == EnsureDate(schedules, date)
        present == queue \in DOMAIN sch[date]
        branch == BranchOf(mod.kind, present)
    IN  IF branch = "additional"
        THEN [sch EXCEPT ![date] =
                 Put(@, queue,
                     combine_time_slots(date,
                         Append(SlotsOf(sch, date, queue), mod.data)))]
        ELSE IF branch = "modify"
        THEN [sch EXCEPT ![date] =
                 Put(@, queue,
                     modify_time_slots(sch[date][queue], mod.kind, mod.data[1], date, clock))]
        ELSE IF mod.kind \in {"prolong", "early_start"}
        THEN [sch EXCEPT ![date] = Put(@, queue, <<>>)]
        ELSE sch

\* the body of "for mod in mod_list" for one modification
ApplyOne(schedules, date, queue, mod, clock) ==
    LET sch == EnsureDate(schedules, date)
        present == queue \in DOMAIN sch[date]
        branch == BranchOf(mod.kind, present)
    IN  IF branch = "additional"
        THEN [sch EXCEPT ![date] =
                 Put(@, queue,
                     combine_time_slots(date,
                         Append(SlotsOf(sch, date, queue), mod.data)))]
        ELSE IF branch = "modify"
        THEN [sch EXCEPT ![date] =
                 Put(@, queue,
                     modify_time_slots(sch[date][queue], mod.kind, mod.data[1], date, clock))]
        ELSE sch

\* the body of "for mod in mod_list" ends in the ValueError of strptime
apply_raises(schedules, date, queue, mod, clock) ==
    LET sch == EnsureDate(schedules, date)
        present == queue \in DOMAIN sch[date]
        branch == BranchOf(mod.kind, present)
    IN  \/ /\ branch = "additional"
           /\ combine_raises(Append(SlotsOf(sch, date, queue), mod.data))
        \/ /\ branch = "modify"
           /\ modify_raises(sch[date][queue], mod.kind, mod.data[1], date, clock)

\* one iteration of "for message_widget in message_widgets" ends in the
\* ValueError of combine_time_slots(date, regular_slots)
scan_raises(msg, clock) ==
    /\ MessageCounts(msg, clock)
    /\ \E i \in 1..Len(msg.sched) :
          combine_raises(RegularSlots(msg.sched[i][2]))

\* the loop of scrape_messages over message_widgets from index i on
RECURSIVE ScanAll(_, _, _, _)
ScanAll(st, widgets, i, clock) ==
    IF i > Len(widgets) THEN st
    ELSE ScanAll(ScanMessageStep(st, widgets[i], i, clock), widgets, i + 1, clock)

\* the loops of apply_modifications from the i-th modification on
RECURSIVE ApplyAll(_, _, _, _)
ApplyAll(schedules, flat, i, clock) ==
    IF i > Len(flat) THEN schedules
    ELSE ApplyAll(ApplyOne(schedules, flat[i].date, flat[i].queue, flat[i].mod, clock),
                  flat, i + 1, clock)

\* what scrape_messages returns for the message widgets of one page
scrape_result(widgets, clock) ==
    LET st == ScanAll([sched |-> EmptyMap, mods |-> <<>>], widgets, 1, clock)
    IN  ApplyAll(st.sched, FlatMods(st.mods), 1, clock)

(***************************************************************************)
(* The channel pages and the instants of the runs of Spec                  *)
(***************************************************************************)
\* most message widgets on the fetched page
MaxMsgs == 2

Q1 == 11

Q2 == 21

\* the day the clock starts on
Day1 == 1

\* the instants a run is made at
NowGrid ==
    {DateTime(Day1, 900), DateTime(Day1, 1130), DateTime(Day1, 2000),
     DateTime(Day1 + 1, 30)}

\* publication instants: today at midnight and in the morning, yesterday
\* evening, the next midnight
TsMidnight == DateTime(Day1, 0)
TsMorning == DateTime(Day1, 800)
TsYesterday == DateTime(Day1 - 1, 2300)
TsNextMidnight == DateTime(Day1 + 1, 0)

Slot(s, e) == [kind |-> "slot", data |-> <<s, e>>]

Mod(kind, arg) == [kind |-> kind, data |-> arg]

Msg(ts, date, queue, items) ==
    [ts |-> ts, date |-> date, sched |-> << <<queue, items>> >>]

\* announcements of base schedules
BaseMsgs ==
    { Msg(TsMorning, Day1, Q1, <<Slot(700, 1000), Slot(1400, 1800)>>),
      Msg(TsMorning, Day1, Q1, <<Slot(930, 1200)>>),
      Msg(TsMorning, Day1 + 1, Q1, <<Slot(700, 1000)>>),
      Msg(TsYesterday, Day1 - 1, Q1, <<Slot(700, 1000)>>),
      Msg(TsMorning, Day1, Q2, <<Slot(700, 1000)>>) }

\* undated announcements of one modification
ModMsgs ==
    { Msg(ts, NoDate, Q1, <<Mod("prolong", <<1300>>)>>) :
        ts \in {TsMidnight, TsYesterday, TsNextMidnight, NoTs} }
    \cup
    { Msg(ts, NoDate, Q1, <<Mod("additional", <<600, 900>>)>>) :
        ts \in {TsMorning, TsYesterday, NoTs} }
    \cup
    { Msg(TsMorning, NoDate, Q1, <<Mod("early_start", <<600>>)>>),
      Msg(TsMorning, NoDate, Q1, <<Mod("cancel", <<0>>)>>),
      Msg(TsMorning, Day1, Q1, <<Mod("cancel", <<0>>)>>),
      Msg(TsMorning, Day1, Q2, <<Mod("prolong", <<2400>>)>>),
      Msg(TsMorning, Day1, Q2, <<Mod("early_start", <<2400>>)>>) }

\* undated announcements holding a base schedule and a modification
MixedMsgs ==
    { Msg(ts, NoDate, Q1, <<Slot(700, 1000), Mod("prolong", <<1300>>)>>) :
        ts \in {TsMorning, TsYesterday} }

\* announcements of a base schedule with a time that is no time of day, and
\* with an end before the start
BadMsgs ==
    { Msg(TsMorning, Day1, Q2, <<Slot(2500, 2600)>>),
      Msg(TsMorning, Day1, Q2, <<Slot(1000, 700)>>) }

MsgPool == BaseMsgs \cup ModMsgs \cup MixedMsgs \cup BadMsgs

(***************************************************************************)
(* The persisted document and generate_json                                *)
(*                                                                         *)
(* A document is [kind, data, today, stamp]: data is fact.data, a map from *)
(* dayKey to group key to hours vector; a dayKey, the Unix timestamp of a  *)
(* day's local midnight, is written as the day's number, which keeps the   *)
(* order; today is fact.today; stamp is the instant lastUpdated and        *)
(* fact.update were written.  A group key "GPVa.b" is written as the       *)
(* number ab.  The file on disk is a document of kind "ok", or is          *)
(* "absent", or "corrupt" (it does not load), or "partial" (a write that   *)
(* failed after open(..., 'w') had truncated it).                          *)
(***************************************************************************)
Doc(kind, fact_data, fact_today, stamp) ==
    [kind |-> kind, data |-> fact_data, today |-> fact_today, stamp |-> stamp]

\* no document: the file is absent, or existing_data is None
NoDoc(kind) == Doc(kind, EmptyMap, 0, 0)

\* get_queue_key: 3.0 -> "GPV3.1", 3.2 -> "GPV3.2"
get_queue_key(queue_number) ==
    IF queue_number % 10 = 0 THEN queue_number + 1 ELSE queue_number

\* int(date_obj.timestamp()) of the day's midnight
DayKey(date) == date

\* the cleanup with the comparison turned round
IsOldNever(timestamp, today_timestamp) == FALSE

\* if timestamp < today_timestamp
IsOld(timestamp, today_timestamp) == timestamp < today_timestamp

\* cleanup_old_data on fact.data
cleanup_old_data(fact_data, clock) ==
    [k \in {t \in DOMAIN fact_data : ~IsOld(t, DayKey(Today(clock)))} |-> fact_data[k]]

\* the merge keeping the stored vector of a group that has one
FreshVectorKeepOld(stored, fresh) == stored

\* data["fact"]["data"][timestamp_key][queue_key] = hours_data
FreshVector(stored, fresh) == fresh

\* the loop "for queue_number, time_slots in queues_schedules.items()" on
\* the day's group map
MergeDay(groups, queues_schedules) ==
    LET keys == {get_queue_key(q) : q \in DOMAIN queues_schedules}
        src(key) == CHOOSE q \in DOMAIN queues_schedules : get_queue_key(q) = key
    IN  [g \in DOMAIN groups \cup keys |->
            IF g \in keys
            THEN FreshVector(IF g \in DOMAIN groups THEN groups[g]
                             ELSE create_default_hours,
                             create_hours_from_schedules(queues_schedules[src(g)]))
            ELSE groups[g]]

\* the loop "for date_str, queues_schedules in schedules.items()" on fact.data
MergeFresh(fact_data, schedules) ==
    [k \in DOMAIN fact_data \cup {DayKey(d) : d \in DOMAIN schedules} |->
        IF \E d \in DOMAIN schedules : DayKey(d) = k
        THEN MergeDay(IF k \in DOMAIN fact_data THEN fact_data[k] ELSE EmptyMap,
                      schedules[CHOOSE d \in DOMAIN schedules : DayKey(d) = k])
        ELSE fact_data[k]]

\* generate_json(schedules, existing_data) at the instant clock
generate_json(schedules, existing, clock) ==
    LET start == IF existing.kind = "ok" THEN existing.data ELSE EmptyMap
    IN  Doc("ok", MergeFresh(cleanup_old_data(start, clock), schedules),
            DayKey(Today(clock)), clock)

(***************************************************************************)
(* Spec: runs of scrape_messages on every page of the pool.                *)
(* SpecMain: runs of cek_scraper main(): scrape_messages, then the         *)
(* previous document is loaded, generate_json merges and the result is     *)
(* written                                                                 *)
(***************************************************************************)
\* runs made on one channel page
MaxRuns == 2

\* an hours vector with the morning out, and one with probabilistic values
\* a run does not produce
MorningOut == [k \in HourKeys |-> IF k \in {8, 9, 10} THEN "no" ELSE "yes"]

MaybeVector ==
    [k \in HourKeys |-> IF k = 1 THEN "maybe" ELSE IF k = 2 THEN "mfirst"
                        ELSE IF k = 3 THEN "msecond" ELSE "yes"]

\* the key of a group no message of the pool names
Q3 == 31

\* the document left by a run of the day before: yesterday, today and tomorrow
PreviousDoc ==
    Doc("ok",
        Put(Put(Put(EmptyMap, DayKey(Day1 - 1), Put(EmptyMap, get_queue_key(Q1), MorningOut)),
                DayKey(Day1), Put(Put(EmptyMap, get_queue_key(Q1), MorningOut),
                                  Q3, MaybeVector)),
            DayKey(Day1 + 1), Put(EmptyMap, Q3, MaybeVector)),
        DayKey(Day1 - 1), DateTime(Day1 - 1, 2000))

\* what a run can find on disk
InitFiles == {NoDoc("absent"), NoDoc("corrupt"), PreviousDoc}

\* the pages main() is run on: base schedules of today, of yesterday and of
\* tomorrow, an additional outage, an early start, and the posts on which a
\* run fails
MainPool ==
    { Msg(TsMorning, Day1, Q1, <<Slot(700, 1000), Slot(1400, 1800)>>),
      Msg(TsYesterday, Day1 - 1, Q1, <<Slot(700, 1000)>>),
      Msg(TsMorning, Day1 + 1, Q1, <<Slot(700, 1000)>>),
      Msg(TsMorning, NoDate, Q1, <<Mod("additional", <<600, 900>>)>>),
      Msg(TsMorning, NoDate, Q1, <<Mod("early_start", <<600>>)>>),
      Msg(TsMorning, Day1, Q2, <<Slot(700, 1000)>>),
      Msg(TsMorning, Day1, Q2, <<Mod("early_start", <<2400>>)>>),
      Msg(TsMorning, Day1, Q2, <<Slot(2500, 2600)>>) }

Init ==
    /\ now \in NowGrid
    /\ batch = <<>>
    /\ pc = "idle"
    /\ msgIdx = 0
    /\ all_schedules = EmptyMap
    /\ modifications_by_date = <<>>
    /\ modIdx = 0
    /\ applied = NoneApplied
    /\ today = 0
    /\ file = NoDoc("absent")
    /\ existing_data = NoDoc("none")
    /\ data = NoDoc("none")
    /\ runs = 0
    /\ lastBatch = <<>>
    /\ lastFile = NoDoc("none")
    /\ lastDay = 0
    /\ MergeIdle
    /\ ModifyIdle
    /\ QuantIdle
    /\ RestIdle

MainInit ==
    /\ now \in NowGrid
    /\ batch = <<>>
    /\ pc = "idle"
    /\ msgIdx = 0
    /\ all_schedules = EmptyMap
    /\ modifications_by_date = <<>>
    /\ modIdx = 0
    /\ applied = NoneApplied
    /\ today = 0
    /\ file \in InitFiles
    /\ existing_data = NoDoc("none")
    /\ data = NoDoc("none")
    /\ runs = 0
    /\ lastBatch = <<>>
    /\ lastFile = NoDoc("none")
    /\ lastDay = 0
    /\ MergeIdle
    /\ ModifyIdle
    /\ QuantIdle
    /\ RestIdle

\* time passes, between two runs or between scrape_messages and generate_json
Tick ==
    /\ pc \in {"idle", "loaded"}
    /\ \E t \in NowGrid : t > now /\ now' = t
    /\ UNCHANGED <<batch, pc, msgIdx, all_schedules, modifications_by_date, modIdx,
                   applied, docVars, mergeVars, modifyVars, quantVars, restVars>>

\* scrape_messages up to its loop: the page is fetched and today is read
Fetch ==
    /\ pc = "idle"
    /\ batch' \in SeqsUpTo(MsgPool, MaxMsgs)
    /\ pc' = "scan"
    /\ msgIdx' = 1
    /\ all_schedules' = EmptyMap
    /\ modifications_by_date' = <<>>
    /\ modIdx' = 1
    /\ applied' = NoneApplied
    /\ today' = Today(now)
    /\ UNCHANGED <<now, file, existing_data, data, runs, lastBatch, lastFile, lastDay,
                   mergeVars, modifyVars, quantVars, restVars>>

\* the same in the first run of main()
FetchPage ==
    /\ pc = "idle"
    /\ runs = 0
    /\ batch' \in SeqsUpTo(MainPool, MaxMsgs)
    /\ pc' = "scan"
    /\ msgIdx' = 1
    /\ all_schedules' = EmptyMap
    /\ modifications_by_date' = <<>>
    /\ modIdx' = 1
    /\ applied' = NoneApplied
    /\ today' = Today(now)
    /\ lastFile' = file
    /\ UNCHANGED <<now, file, existing_data, data, runs, lastBatch, lastDay,
                   mergeVars, modifyVars, quantVars, restVars>>

\* the same in a later run: the channel page is the one the run before saw
FetchAgain ==
    /\ pc = "idle"
    /\ runs > 0
    /\ runs < MaxRuns
    /\ batch' = lastBatch
    /\ pc' = "scan"
    /\ msgIdx' = 1
    /\ all_schedules' = EmptyMap
    /\ modifications_by_date' = <<>>
    /\ modIdx' = 1
    /\ applied' = NoneApplied
    /\ today' = Today(now)
    /\ lastFile' = file
    /\ UNCHANGED <<now, file, existing_data, data, runs, lastBatch, lastDay,
                   mergeVars, modifyVars, quantVars, restVars>>

\* one iteration of "for message_widget in message_widgets"
ScanMessage ==
    /\ pc = "scan"
    /\ msgIdx <= Len(batch)
    /\ ~scan_raises(batch[msgIdx], now)
    /\ LET st == ScanMessageStep([sched |-> all_schedules, mods |-> modifications_by_date],
                                 batch[msgIdx], msgIdx, now)
       IN  /\ all_schedules' = st.sched
           /\ modifications_by_date' = st.mods
    /\ msgIdx' = msgIdx + 1
    /\ UNCHANGED <<now, batch, pc, modIdx, applied, docVars,
                   mergeVars, modifyVars, quantVars, restVars>>

\* the same iteration ending in the ValueError of combine_time_slots, which
\* main() catches: sys.exit(1)
ScanMessageRaises ==
    /\ pc = "scan"
    /\ msgIdx <= Len(batch)
    /\ scan_raises(batch[msgIdx], now)
    /\ pc' = "failed"
    /\ UNCHANGED <<now, batch, msgIdx, all_schedules, modifications_by_date, modIdx,
                   applied, docVars, mergeVars, modifyVars, quantVars, restVars>>

\* the loop is over: self.apply_modifications(all_schedules, modifications_by_date)
ScanDone ==
    /\ pc = "scan"
    /\ msgIdx > Len(batch)
    /\ pc' = "mods"
    /\ UNCHANGED <<now, batch, msgIdx, all_schedules, modifications_by_date, modIdx,
                   applied, docVars, mergeVars, modifyVars, quantVars, restVars>>

\* one iteration of "for mod in mod_list" of apply_modifications
ApplyMod ==
    /\ pc = "mods"
    /\ modIdx <= Len(FlatMods(modifications_by_date))
    /\ LET e == FlatMods(modifications_by_date)[modIdx]
       IN  /\ ~apply_raises(all_schedules, e.date, e.queue, e.mod, now)
           /\ all_schedules' = ApplyOne(all_schedules, e.date, e.queue, e.mod, now)
           /\ applied' = [kind |-> e.mod.kind, data |-> e.mod.data, date |-> e.date,
                          queue |-> e.queue, src |-> e.mod.src,
                          present |-> (e.date \in DOMAIN all_schedules
                                       /\ e.queue \in DOMAIN all_schedules[e.date]),
                          before |-> SlotsOf(all_schedules, e.date, e.queue)]
    /\ modIdx' = modIdx + 1
    /\ UNCHANGED <<now, batch, pc, msgIdx, modifications_by_date, docVars,
                   mergeVars, modifyVars, quantVars, restVars>>

\* the same iteration ending in an exception, which main() catches: sys.exit(1)
ApplyModRaises ==
    /\ pc = "mods"
    /\ modIdx <= Len(FlatMods(modifications_by_date))
    /\ LET e == FlatMods(modifications_by_date)[modIdx]
       IN  apply_raises(all_schedules, e.date, e.queue, e.mod, now)
    /\ pc' = "failed"
    /\ UNCHANGED <<now, batch, msgIdx, all_schedules, modifications_by_date, modIdx,
                   applied, docVars, mergeVars, modifyVars, quantVars, restVars>>

\* apply_modifications is over: return all_schedules
ApplyDone ==
    /\ pc = "mods"
    /\ modIdx > Len(FlatMods(modifications_by_date))
    /\ pc' = "scraped"
    /\ UNCHANGED <<now, batch, msgIdx, all_schedules, modifications_by_date, modIdx,
                   applied, docVars, mergeVars, modifyVars, quantVars, restVars>>

\* main: if not schedules: sys.exit(0)
NoSchedules ==
    /\ pc = "scraped"
    /\ DOMAIN all_schedules = {}
    /\ pc' = "exit0"
    /\ UNCHANGED <<now, batch, msgIdx, all_schedules, modifications_by_date, modIdx,
                   applied, docVars, mergeVars, modifyVars, quantVars, restVars>>

\* main: existing_data is loaded when the output file exists, and stays
\* None when there is no file
LoadExisting ==
    /\ pc = "scraped"
    /\ DOMAIN all_schedules # {}
    /\ file.kind \in {"ok", "absent"}
    /\ existing_data' = IF file.kind = "ok" THEN file ELSE NoDoc("none")
    /\ pc' = "loaded"
    /\ UNCHANGED <<now, batch, msgIdx, all_schedules, modifications_by_date, modIdx,
                   applied, today, file, data, runs, lastBatch, lastFile, lastDay,
                   mergeVars, modifyVars, quantVars, restVars>>

\* main: json.load raises, "Warning: Could not load existing data", and
\* existing_data stays None
LoadExistingFails ==
    /\ pc = "scraped"
    /\ DOMAIN all_schedules # {}
    /\ file.kind \in {"corrupt", "partial"}
    /\ existing_data' = NoDoc("none")
    /\ pc' = "loaded"
    /\ UNCHANGED <<now, batch, msgIdx, all_schedules, modifications_by_date, modIdx,
                   applied, today, file, data, runs, lastBatch, lastFile, lastDay,
                   mergeVars, modifyVars, quantVars, restVars>>

\* main: data = scraper.generate_json(schedules, existing_data)
Generate ==
    /\ pc = "loaded"
    /\ data' = generate_json(all_schedules, existing_data, now)
    /\ pc' = "generated"
    /\ UNCHANGED <<now, batch, msgIdx, all_schedules, modifications_by_date, modIdx,
                   applied, today, file, existing_data, runs, lastBatch, lastFile, lastDay,
                   mergeVars, modifyVars, quantVars, restVars>>

\* main: with open(args.output, 'w') ...: json.dump(data, f, ...)
Save ==
    /\ pc = "generated"
    /\ file' = data
    /\ pc' = "done"
    /\ UNCHANGED <<now, batch, msgIdx, all_schedules, modifications_by_date, modIdx,
                   applied, today, existing_data, data, runs, lastBatch, lastFile, lastDay,
                   mergeVars, modifyVars, quantVars, restVars>>

\* the write fails: in open(), which leaves the file as it was, or in
\* json.dump after open(..., 'w') has truncated it; main() catches: sys.exit(1)
SaveFails ==
    /\ pc = "generated"
    /\ file' \in {file, NoDoc("partial")}
    /\ pc' = "writefailed"
    /\ UNCHANGED <<now, batch, msgIdx, all_schedules, modifications_by_date, modIdx,
                   applied, today, existing_data, data, runs, lastBatch, lastFile, lastDay,
                   mergeVars, modifyVars, quantVars, restVars>>

\* scrape_messages is over: it returns all_schedules, or the exception of
\* one of its steps leaves it
Return ==
    /\ pc \in {"scraped", "failed"}
    /\ pc' = "idle"
    /\ batch' = <<>>
    /\ msgIdx' = 0
    /\ all_schedules' = EmptyMap
    /\ modifications_by_date' = <<>>
    /\ modIdx' = 0
    /\ applied' = NoneApplied
    /\ today' = 0
    /\ UNCHANGED <<now, file, existing_data, data, runs, lastBatch, lastFile, lastDay,
                   mergeVars, modifyVars, quantVars, restVars>>

\* the process is over
EndRun ==
    /\ pc \in {"done", "exit0", "failed", "writefailed"}
    /\ pc' = "idle"
    /\ batch' = <<>>
    /\ msgIdx' = 0
    /\ all_schedules' = EmptyMap
    /\ modifications_by_date' = <<>>
    /\ modIdx' = 0
    /\ applied' = NoneApplied
    /\ today' = 0
    /\ existing_data' = NoDoc("none")
    /\ data' = NoDoc("none")
    /\ runs' = runs + 1
    /\ lastBatch' = batch
    /\ lastDay' = today
    /\ UNCHANGED <<now, file, lastFile, mergeVars, modifyVars, quantVars, restVars>>

Next ==
    \/ Tick
    \/ Fetch
    \/ ScanMessage
    \/ ScanMessageRaises
    \/ ScanDone
    \/ ApplyMod
    \/ ApplyModRaises
    \/ ApplyDone
    \/ Return

Spec == Init /\ [][Next]_vars

MainNext ==
    \/ Tick
    \/ FetchPage
    \/ FetchAgain
    \/ ScanMessage
    \/ ScanMessageRaises
    \/ ScanDone
    \/ ApplyMod
    \/ ApplyModRaises
    \/ ApplyDone
    \/ NoSchedules
    \/ LoadExisting
    \/ LoadExistingFails
    \/ Generate
    \/ Save
    \/ SaveFails
    \/ EndRun

SpecMain == MainInit /\ [][MainNext]_vars

(***************************************************************************)
(* Claims about the modifications of a run                                 *)
(***************************************************************************)
\* the intervals of the (date, queue) of the modification applied last
AppliedSlots == SlotsOf(all_schedules, applied.date, applied.queue)

\* C4 as stated: once a cancel modification for a (day, group) has been
\* applied, the (day, group) holds no interval, whatever it held before;
\* when the group had no entry the cancel leaves it without one
C4_CancelRemoves ==
    applied.kind = "cancel" => AppliedSlots = <<>>

\* a timestamp of an earlier or later civil day than the clock's
Stale(message_timestamp, clock) ==
    message_timestamp # NoTs /\ ~is_message_from_today(message_timestamp, clock)

\* a message's schedules with its modification claims taken out; a queue
\* that is left without an item is not in the message's schedules at all
RECURSIVE WithoutClaims(_)
WithoutClaims(sched) ==
    IF sched = <<>> THEN <<>>
    ELSE LET regular == SelectItems(Head(sched)[2], FALSE)
         IN  (IF regular = <<>> THEN <<>> ELSE << <<Head(sched)[1], regular>> >>)
             \o WithoutClaims(Tail(sched))

\* the batch with the modification claims of message i taken out
BatchWithoutClaims(widgets, i) ==
    [widgets EXCEPT ![i].sched = WithoutClaims(@)]

\* the queues message i holds a modification claim for
ClaimQueues(msg) ==
    {msg.sched[k][1] : k \in {j \in 1..Len(msg.sched) :
                                 SelectItems(msg.sched[j][2], TRUE) # <<>>}}

\* C5 as stated: a modification is applied only when its message was
\* published inside today's civil window, and when a run has returned, for
\* every message published on another civil day the interval set of each
\* (day, group) it holds a modification for is the one the run would have
\* returned had those modifications not been in the batch
C5_FreshnessGate ==
    /\ applied.kind # "none" => is_message_from_today(batch[applied.src].ts, now)
    /\ pc = "scraped" =>
          \A i \in 1..Len(batch) :
             Stale(batch[i].ts, now) =>
                \A queue \in ClaimQueues(batch[i]) :
                   SlotsOf(all_schedules, MessageDate(batch[i], now), queue)
                   = SlotsOf(scrape_result(BatchWithoutClaims(batch, i), now),
                             MessageDate(batch[i], now), queue)

\* the modifications queued so far
Queued == FlatMods(modifications_by_date)

\* message i holds a modification and has been scanned
ScannedClaim(i) ==
    /\ pc \in {"scan", "mods", "scraped"}
    /\ i < msgIdx
    /\ HasModifications(batch[i].sched)

C7_Additional ==
    applied.kind = "additional" =>
       /\ AppliedSlots = combine_time_slots(applied.date, Append(applied.before, applied.data))
       /\ ~applied.present => applied.before = <<>>
       /\ (~applied.present /\ applied.data = <<600, 900>>) =>
             AppliedSlots = << <<600, 900>> >>

\* Scenario C: additional(06:00, 09:00) applied to a group without entry
C7_Witness ==
    /\ applied.kind = "additional"
    /\ applied.data = <<600, 900>>
    /\ ~applied.present
    /\ AppliedSlots = << <<600, 900>> >>

\* additional(06:00, 09:00) applied to a group holding 07:00-10:00, 14:00-18:00
C7_WitnessExisting ==
    /\ applied.kind = "additional"
    /\ applied.data = <<600, 900>>
    /\ applied.before = <<<<700, 1000>>, <<1400, 1800>>>>
    /\ AppliedSlots = <<<<600, 1000>>, <<1400, 1800>>>>

(***************************************************************************)
(* cherkasy_telegram_parser: put_interval                                  *)
(*                                                                         *)
(* Hours are floats in the source (time_to_hour: h + m / 60.0); here they  *)
(* are minutes, so h + 0.5 is h * 60 + 30.                                 *)
(***************************************************************************)
\* time_to_hour, in minutes
time_to_hour(hhmm) == ParseHM(hhmm)

\* t2h of parse_schedule_from_text: an end of 00:00 after a later start is
\* the end of the day, an end before the start is on the next day
WrappedEnd(t1h, t2h) ==
    IF t2h = 0 /\ t1h > 0 THEN 1440
    ELSE IF t2h < t1h THEN t2h + 1440
    ELSE t2h

\* first = t1 < h + 0.5 and t2 > h, after the shift t1 += 1, t2 += 1
FirstHalfHit(t1, t2, hour) ==
    t1 + 60 < hour * 60 + 30 /\ t2 + 60 > hour * 60

\* second = t1 < h + 1.0 and t2 > h + 0.5, after the shift
SecondHalfHit(t1, t2, hour) ==
    t1 + 60 < hour * 60 + 60 /\ t2 + 60 > hour * 60 + 30

\* what the body of "for hour in range(1, 25)" stores under str(hour);
\* "skip" is the continue
HourWritten(t1, t2, hour) ==
    IF ~FirstHalfHit(t1, t2, hour) /\ ~SecondHalfHit(t1, t2, hour) THEN "skip"
    ELSE IF FirstHalfHit(t1, t2, hour) /\ SecondHalfHit(t1, t2, hour) THEN "no"
    ELSE IF FirstHalfHit(t1, t2, hour) THEN "first"
    ELSE "second"

\* put_interval(result, group_id, t1, t2) on result[group_id]
put_interval(hours, t1, t2) ==
    LET written == {hour \in 1..24 : HourWritten(t1, t2, hour) # "skip"}
    IN  [k \in DOMAIN hours \cup written |->
            IF k \in written THEN HourWritten(t1, t2, k) ELSE hours[k]]

\* full[key] = hours.get(key, "yes") for the keys "1".."24"
normalize_hours(hours) ==
    [k \in 1..24 |-> IF k \in DOMAIN hours THEN hours[k] ELSE "yes"]

(***************************************************************************)
(* SpecPut: the intervals of one group's line handed to put_interval, one  *)
(* after another                                                           *)
(***************************************************************************)
\* most intervals on one group's line
MaxFrags == 2

\* times of day the intervals are drawn from
PutGrid == {0, 700, 730, 800, 2200}

PutInit ==
    /\ pFrags \in SeqsUpTo(PutGrid \X PutGrid, MaxFrags)
    /\ pIdx = 0
    /\ pHours = EmptyMap
    /\ pBefore = EmptyMap
    /\ MergeIdle
    /\ ModifyIdle
    /\ QuantIdle
    /\ RunIdle
    /\ CherIdle

\* one iteration of "for t1, t2 in intervals"
PutFragment ==
    /\ pIdx < Len(pFrags)
    /\ LET t1h == time_to_hour(pFrags[pIdx + 1][1])
           t2h == WrappedEnd(t1h, time_to_hour(pFrags[pIdx + 1][2]))
       IN  pHours' = put_interval(pHours, t1h, t2h)
    /\ pBefore' = pHours
    /\ pIdx' = pIdx + 1
    /\ UNCHANGED <<pFrags, mergeVars, modifyVars, quantVars, runVars, cherVars>>

PutNext == PutFragment

SpecPut == PutInit /\ [][PutNext]_vars

\* C12 as stated: a half-hour outage never overwrites what is recorded about
\* the other half of its hour, so a bucket recorded first or second only
\* changes to no, and 07:00-07:30 and 07:30-08:00 put in either order leave
\* bucket 8 at no
C12_HalvesAccumulate ==
    /\ \A k \in DOMAIN pBefore :
          (pBefore[k] \in {"first", "second"} /\ pHours[k] # pBefore[k]) =>
             pHours[k] = "no"
    /\ (pIdx = 2 /\ pFrags \in {<< <<700, 730>>, <<730, 800>> >>,
                                << <<730, 800>>, <<700, 730>> >>}) =>
          normalize_hours(pHours)[8] = "no"

(***************************************************************************)
(* Claims about the persisted document                                     *)
(***************************************************************************)
\* no dayKey of the document d is earlier than the midnight of the instant's day
NoStaleDay(d, instant) == \A k \in DOMAIN d.data : k >= DayKey(Today(instant))

\* C13: after generate_json has run on the previous document and the
\* schedules scrape_messages returned, fact.data of the result holds no
\* dayKey earlier than the local midnight of today, and fact.today is that
\* midnight
C13_Retention ==
    pc = "generated" =>
        /\ NoStaleDay(data, now)
        /\ data.today = DayKey(Today(now))

\* the same for a run in which generate_json reads the clock on the day on
\* which scrape_messages read it
C13_RetentionSameDay ==
    (pc = "generated" /\ today = Today(now)) =>
        /\ NoStaleDay(data, now)
        /\ data.today = DayKey(Today(now))

\* generate_json has dropped yesterday's key of the previous document
C13_WitnessDropped ==
    /\ pc = "generated"
    /\ today = Today(now)
    /\ existing_data.kind = "ok"
    /\ \E k \in DOMAIN existing_data.data : k < DayKey(Today(now))
    /\ DOMAIN data.data # {}

\* C14: the cleanup runs in every run, also in one that finds no new
\* schedules: when such a run is over, the document on disk holds no dayKey
\* earlier than today
C14_RetentionEveryRun ==
    (pc = "exit0" /\ file.kind = "ok") => NoStaleDay(file, now)

\* the data map generate_json started from: fact.data of the loaded
\* document, empty when there was none
OldData == IF existing_data.kind = "ok" THEN existing_data.data ELSE EmptyMap

\* the dayKeys of the previous document that are today or later
KeptDays == {k \in DOMAIN OldData : k >= DayKey(Today(now))}

\* the group keys the fresh schedules name for the dayKey k
FreshGroups(k) ==
    {get_queue_key(q) : q \in UNION {DOMAIN all_schedules[d] :
                                        d \in {e \in DOMAIN all_schedules : DayKey(e) = k}}}

\* C15: the data map of the result is the previous data map restricted to
\* the dayKeys of today and later, overridden by the fresh schedules: a
\* (day, group) of the fresh schedules holds exactly its fresh quantization,
\* every other (day, group) of today or later holds the vector it held,
\* whatever its values, and there is no other entry
C15_OverwriteAndKeep ==
    pc = "generated" =>
        /\ DOMAIN data.data = KeptDays \cup {DayKey(d) : d \in DOMAIN all_schedules}
        /\ \A d \in DOMAIN all_schedules : \A q \in DOMAIN all_schedules[d] :
              data.data[DayKey(d)][get_queue_key(q)]
                  = create_hours_from_schedules(all_schedules[d][q])
        /\ \A k \in DOMAIN data.data :
              /\ DOMAIN data.data[k]
                    = FreshGroups(k) \cup (IF k \in KeptDays THEN DOMAIN OldData[k] ELSE {})
              /\ \A g \in DOMAIN data.data[k] \ FreshGroups(k) :
                    data.data[k][g] = OldData[k][g]

\* a stored vector was replaced by a different fresh one while a vector with
\* maybe, mfirst and msecond of the same day was kept
C15_Witness ==
    /\ pc = "generated"
    /\ existing_data.kind = "ok"
    /\ \E d \in DOMAIN all_schedules : \E q \in DOMAIN all_schedules[d] :
          /\ DayKey(d) \in KeptDays
          /\ get_queue_key(q) \in DOMAIN OldData[DayKey(d)]
          /\ OldData[DayKey(d)][get_queue_key(q)] # data.data[DayKey(d)][get_queue_key(q)]
          /\ Q3 \in DOMAIN data.data[DayKey(d)]
          /\ data.data[DayKey(d)][Q3] = MaybeVector

\* C16: when the data map a run computed equals the data map of the
\* document it loaded, the run does not write: the document on disk,
\* lastUpdated and fact.update included, is the one it loaded
C16_NoOpNoWrite ==
    (pc = "done" /\ existing_data.kind = "ok" /\ data.data = existing_data.data) =>
        file = existing_data

(***************************************************************************)
(* SpecCher: runs of cherkasy_telegram_parser main() and of the entry      *)
(* block that calls it.  A post is [date, parsed, update]: the date        *)
(* extract_date_from_post found, the schedule parse_schedule_from_text     *)
(* returned for it (group -> hour -> state, only the hours an interval     *)
(* touched) and whether is_update_post holds.                              *)
(***************************************************************************)
\* a date no calendar has, the 31st of February: strptime raises ValueError
BadDate == -2

\* posts on the page
MaxPosts == 2

\* what parse_schedule_from_text returns for "1.1: 07:00-08:00" and for
\* "1.1: 08:00-08:30"
ParsedNo == Put(EmptyMap, get_queue_key(Q1), Put(EmptyMap, 8, "no"))

ParsedFirst == Put(EmptyMap, get_queue_key(Q1), Put(EmptyMap, 9, "first"))

CherPosts ==
    {[date |-> d, parsed |-> ParsedNo, update |-> FALSE] :
        d \in {NoDate, BadDate, Day1 - 1, Day1, Day1 + 1}}
    \cup {[date |-> Day1, parsed |-> ParsedFirst, update |-> u] : u \in BOOLEAN}
    \cup {[date |-> Day1, parsed |-> EmptyMap, update |-> FALSE]}

\* merge_schedules(base, update)
merge_schedules(base, update) ==
    [g \in DOMAIN base \cup DOMAIN update |->
        IF g \in DOMAIN update
        THEN LET old == IF g \in DOMAIN base THEN base[g] ELSE EmptyMap
             IN  [h \in DOMAIN old \cup DOMAIN update[g] |->
                     IF h \in DOMAIN update[g] THEN update[g][h] ELSE old[h]]
        ELSE base[g]]

\* normalize_schedule(schedule)
normalize_schedule(schedule) == [g \in DOMAIN schedule |-> normalize_hours(schedule[g])]

\* one iteration of "for post in posts" of main(), for a post whose date
\* strptime accepts; day is today
cher_post(scheds, post, day) ==
    IF post.date = NoDate THEN scheds
    ELSE IF post.date \notin {day, day + 1} THEN scheds
    ELSE IF DOMAIN post.parsed = {} THEN scheds
    ELSE IF post.date \notin DOMAIN scheds THEN Put(scheds, post.date, post.parsed)
    ELSE IF post.update
         THEN Put(scheds, post.date, merge_schedules(scheds[post.date], post.parsed))
    ELSE scheds

\* new_json of main()
new_json(scheds, clock) ==
    Doc("ok", [k \in {DayKey(d) : d \in DOMAIN scheds} |->
                  normalize_schedule(scheds[CHOOSE d \in DOMAIN scheds : DayKey(d) = k])],
        DayKey(Today(clock)), clock)

\* the DIFF CHECK of main(): the file loads and its fact.data, dumped with
\* sort_keys, equals that of new_json
SameData(old_json, new) == old_json.kind = "ok" /\ old_json.data = new.data

\* the document a run of the day before left for today
CherPrevious ==
    Doc("ok", Put(EmptyMap, DayKey(Day1), normalize_schedule(ParsedNo)),
        DayKey(Day1 - 1), DateTime(Day1 - 1, 2000))

CherInit ==
    /\ cPc = "idle"
    /\ cNow = 0
    /\ cPosts = <<>>
    /\ cIdx = 0
    /\ cSchedules = EmptyMap
    /\ cNew = NoDoc("none")
    /\ cFile \in {NoDoc("absent"), NoDoc("corrupt"), CherPrevious}
    /\ cStart = NoDoc("none")
    /\ cRuns = 0
    /\ MergeIdle
    /\ ModifyIdle
    /\ QuantIdle
    /\ RunIdle
    /\ PutIdle

\* posts = await fetch_posts(); today = datetime.now(TZ).date()
CherFetch ==
    /\ cPc = "idle"
    /\ cRuns = 0
    /\ cPosts' \in SeqsUpTo(CherPosts, MaxPosts)
    /\ cNow' \in NowGrid
    /\ cIdx' = 1
    /\ cSchedules' = EmptyMap
    /\ cNew' = NoDoc("none")
    /\ cStart' = cFile
    /\ cPc' = "posts"
    /\ UNCHANGED <<cFile, cRuns, mergeVars, modifyVars, quantVars, runVars, putVars>>

\* the same in a later run: the page is the one the run before saw
CherFetchAgain ==
    /\ cPc = "idle"
    /\ cRuns > 0
    /\ cRuns < MaxRuns
    /\ \E t \in NowGrid : t >= cNow /\ cNow' = t
    /\ cIdx' = 1
    /\ cSchedules' = EmptyMap
    /\ cNew' = NoDoc("none")
    /\ cStart' = cFile
    /\ cPc' = "posts"
    /\ UNCHANGED <<cPosts, cFile, cRuns, mergeVars, modifyVars, quantVars, runVars, putVars>>

\* fetch_posts raises: the page does not load or shows no message in time
CherFetchFails ==
    /\ cPc = "idle"
    /\ cRuns < MaxRuns
    /\ cStart' = cFile
    /\ cPc' = "raised"
    /\ UNCHANGED <<cNow, cPosts, cIdx, cSchedules, cNew, cFile, cRuns,
                   mergeVars, modifyVars, quantVars, runVars, putVars>>

\* one iteration of "for post in posts"
CherPost ==
    /\ cPc = "posts"
    /\ cIdx <= Len(cPosts)
    /\ cPosts[cIdx].date # BadDate
    /\ cSchedules' = cher_post(cSchedules, cPosts[cIdx], Today(cNow))
    /\ cIdx' = cIdx + 1
    /\ UNCHANGED <<cPc, cNow, cPosts, cNew, cFile, cStart, cRuns,
                   mergeVars, modifyVars, quantVars, runVars, putVars>>

\* the same iteration ending in the ValueError of datetime.strptime
CherPostRaises ==
    /\ cPc = "posts"
    /\ cIdx <= Len(cPosts)
    /\ cPosts[cIdx].date = BadDate
    /\ cPc' = "raised"
    /\ UNCHANGED <<cNow, cPosts, cIdx, cSchedules, cNew, cFile, cStart, cRuns,
                   mergeVars, modifyVars, quantVars, runVars, putVars>>

\* if not schedules: return False
CherNoData ==
    /\ cPc = "posts"
    /\ cIdx > Len(cPosts)
    /\ DOMAIN cSchedules = {}
    /\ cPc' = "nodata"
    /\ UNCHANGED <<cNow, cPosts, cIdx, cSchedules, cNew, cFile, cStart, cRuns,
                   mergeVars, modifyVars, quantVars, runVars, putVars>>

\* out_data and new_json are built
CherBuild ==
    /\ cPc = "posts"
    /\ cIdx > Len(cPosts)
    /\ DOMAIN cSchedules # {}
    /\ cNew' = new_json(cSchedules, cNow)
    /\ cPc' = "built"
    /\ UNCHANGED <<cNow, cPosts, cIdx, cSchedules, cFile, cStart, cRuns,
                   mergeVars, modifyVars, quantVars, runVars, putVars>>

\* DIFF CHECK: the data did not change, return False
CherNoChange ==
    /\ cPc = "built"
    /\ SameData(cFile, cNew)
    /\ cPc' = "nochange"
    /\ UNCHANGED <<cNow, cPosts, cIdx, cSchedules, cNew, cFile, cStart, cRuns,
                   mergeVars, modifyVars, quantVars, runVars, putVars>>

\* SAVE, reached when there is no file, when the data differ and when the
\* DIFF CHECK raised, which is only logged
CherSave ==
    /\ cPc = "built"
    /\ ~SameData(cFile, cNew)
    /\ cFile' = cNew
    /\ cPc' = "saved"
    /\ UNCHANGED <<cNow, cPosts, cIdx, cSchedules, cNew, cStart, cRuns,
                   mergeVars, modifyVars, quantVars, runVars, putVars>>

\* the write raises: in open(), or in json.dump after open(..., "w") has
\* truncated the file
CherSaveFails ==
    /\ cPc = "built"
    /\ ~SameData(cFile, cNew)
    /\ cFile' \in {cFile, NoDoc("partial")}
    /\ cPc' = "raised"
    /\ UNCHANGED <<cNow, cPosts, cIdx, cSchedules, cNew, cStart, cRuns,
                   mergeVars, modifyVars, quantVars, runVars, putVars>>

\* the entry block: except Exception: os.remove(OUTPUT_FILE) when it exists
CherRemove ==
    /\ cPc = "raised"
    /\ cFile' = NoDoc("absent")
    /\ cPc' = "failed"
    /\ UNCHANGED <<cNow, cPosts, cIdx, cSchedules, cNew, cStart, cRuns,
                   mergeVars, modifyVars, quantVars, runVars, putVars>>

\* the process is over
CherEnd ==
    /\ cPc \in {"nodata", "nochange", "saved", "failed"}
    /\ cPc' = "idle"
    /\ cRuns' = cRuns + 1
    /\ UNCHANGED <<cNow, cPosts, cIdx, cSchedules, cNew, cFile, cStart,
                   mergeVars, modifyVars, quantVars, runVars, putVars>>

CherNext ==
    \/ CherFetch
    \/ CherFetchAgain
    \/ CherFetchFails
    \/ CherPost
    \/ CherPostRaises
    \/ CherNoData
    \/ CherBuild
    \/ CherNoChange
    \/ CherSave
    \/ CherSaveFails
    \/ CherRemove
    \/ CherEnd

SpecCher == CherInit /\ [][CherNext]_vars

(***************************************************************************)
(* Claims about failed runs                                                *)
(***************************************************************************)
\* main() of cherkasy_telegram_parser writes only when the data map changed
CherWritesOnlyChanges == cPc = "saved" => ~SameData(cStart, cNew)

\* C18: a run that fails, at whatever step, leaves the document it found:
\* when the failed run is over the file is still the complete document the
\* run started with, neither partly written nor removed
C18_FailedRunKeepsDocument == (cPc = "failed" /\ cStart.kind = "ok") => cFile = cStart

\* the same for main() of cek_scraper
FailedRunKeepsFile ==
    (pc \in {"failed", "writefailed"} /\ lastFile.kind = "ok") => file = lastFile

\* C19: a run that finds an output file which does not load does not go on
\* with an empty document: past the load, a file that exists has been
\* loaded, and nothing is written over one that has not
C19_UnreadableStops ==
    /\ (pc \in {"loaded", "generated"} /\ file.kind # "absent") => existing_data.kind = "ok"
    /\ (pc = "done" /\ lastFile.kind \in {"corrupt", "partial"}) => file = lastFile

\* C20: a claim whose times are no times of day, or whose end is before its
\* start, is dropped alone: no run is aborted for it, and no interval with
\* its end before its start is among the merged base intervals handed to
\* apply_modifications
C20_BadClaimDroppedAlone ==
    /\ pc # "failed"
    /\ (pc = "mods" /\ modIdx = 1) =>
          \A d \in DOMAIN all_schedules : \A q \in DOMAIN all_schedules[d] :
             \A i \in 1..Len(all_schedules[d][q]) :
                all_schedules[d][q][i][1] <= all_schedules[d][q][i][2]

\* the second part of C20 alone
C20_InvertedDropped ==
    (pc = "mods" /\ modIdx = 1) =>
        \A d \in DOMAIN all_schedules : \A q \in DOMAIN all_schedules[d] :
           \A i \in 1..Len(all_schedules[d][q]) :
              all_schedules[d][q][i][1] <= all_schedules[d][q][i][2]

(***************************************************************************)
(* Claims about a second run on the same page                              *)
(***************************************************************************)
\* the run is the second one, on the page and on the day of the first, and
\* has reached the result of generate_json; the first wrote its document on
\* that day, and neither run spans midnight
SecondRunSameDay ==
    /\ pc = "generated"
    /\ runs = 1
    /\ batch = lastBatch
    /\ today = lastDay
    /\ Today(now) = today
    /\ lastFile.kind = "ok"
    /\ Today(lastFile.stamp) = lastDay

\* the page holds a modification of the kind k
HoldsKind(k) ==
    \E i \in 1..Len(batch) : \E j \in 1..Len(batch[i].sched) :
       \E n \in 1..Len(batch[i].sched[j][2]) : batch[i].sched[j][2][n].kind = k

\* C17 as stated: the pipeline run twice on the same claim input at two
\* instants of one civil day gives the fact.data it gave when run once
C17_NoOpStabilityAsStated == SecondRunSameDay => data.data = lastFile.data

\* C17: the same for a claim input without prolong and early_start, the two
\* modifications whose target interval is chosen by the time of the run
C17_NoOpStability ==
    (SecondRunSameDay /\ ~HoldsKind("prolong") /\ ~HoldsKind("early_start")) =>
        data.data = lastFile.data

\* a second run hours after the first, on a page with an additional outage
\* that passed the gate, has produced the data map of the first
C17_Witness ==
    /\ SecondRunSameDay
    /\ ~HoldsKind("prolong")
    /\ ~HoldsKind("early_start")
    /\ HoldsKind("additional")
    /\ now > lastFile.stamp
    /\ \E k \in DOMAIN data.data : \E g \in DOMAIN data.data[k] :
          data.data[k][g] # create_default_hours
    /\ \E i \in 1..Len(batch) :
          HasModifications(batch[i].sched) /\ AcceptsMods(batch[i].ts, now)

(***************************************************************************)
(* Claims about the order and the result of the modifications of a run     *)
(***************************************************************************)
\* the accepted modifications of (date, queue) in the entries of one message
RECURSIVE ClaimsOfMessage(_, _, _, _, _)
ClaimsOfMessage(msg, src, queue, clock, j) ==
    IF j > Len(msg.sched) THEN <<>>
    ELSE (IF msg.sched[j][1] = queue
          THEN AcceptedMods(msg.sched[j][2], msg, src, clock)
          ELSE <<>>)
         \o ClaimsOfMessage(msg, src, queue, clock, j + 1)

\* the accepted modifications of (date, queue) in the order their messages
\* stand on the page, from message i on
RECURSIVE ObservedClaims(_, _, _, _, _)
ObservedClaims(widgets, date, queue, clock, i) ==
    IF i > Len(widgets) THEN <<>>
    ELSE (IF MessageCounts(widgets[i], clock) /\ MessageDate(widgets[i], clock) = date
          THEN ClaimsOfMessage(widgets[i], i, queue, clock, 1)
          ELSE <<>>)
         \o ObservedClaims(widgets, date, queue, clock, i + 1)

\* the left-to-right fold of the per-kind operation over the claims of
\* (date, queue), from claim i on
RECURSIVE FoldClaims(_, _, _, _, _, _)
FoldClaims(schedules, date, queue, claims, clock, i) ==
    IF i > Len(claims) THEN schedules
    ELSE FoldClaims(ApplyOne(schedules, date, queue, claims[i], clock),
                    date, queue, claims, clock, i + 1)

\* the merged base sets of the page: all_schedules when the loop over the
\* messages is over
BaseSets == ScanAll([sched |-> EmptyMap, mods |-> <<>>], batch, 1, now).sched

\* the (date, queue) pairs a page can name
PageDates == {MessageDate(batch[i], now) : i \in 1..Len(batch)} \ {NoDate}

PageQueues ==
    UNION {{batch[i].sched[j][1] : j \in 1..Len(batch[i].sched)} : i \in 1..Len(batch)}

\* C21: when apply_modifications is over, the interval set of every
\* (day, group) is the left-to-right fold of the per-kind operation over the
\* accepted modifications of that (day, group) in the order their messages
\* were observed, starting from the merged base set
C21_FoldInOrder ==
    pc = "scraped" =>
        \A d \in PageDates : \A q \in PageQueues :
           LET folded == FoldClaims(BaseSets, d, q,
                                    ObservedClaims(batch, d, q, now, 1), now, 1)
           IN  /\ SlotsOf(all_schedules, d, q) = SlotsOf(folded, d, q)
               /\ (d \in DOMAIN all_schedules /\ q \in DOMAIN all_schedules[d])
                     <=> (d \in DOMAIN folded /\ q \in DOMAIN folded[d])

\* a prolong observed before an additional outage of the same group was
\* applied first, to no entry, and the additional outage second
C21_Witness ==
    /\ pc = "scraped"
    /\ \E d \in PageDates : \E q \in PageQueues :
          LET claims == ObservedClaims(batch, d, q, now, 1)
          IN  /\ Len(claims) = 2
              /\ claims[1].kind = "prolong"
              /\ claims[2].kind = "additional"
              /\ SlotsOf(BaseSets, d, q) = <<>>
              /\ SlotsOf(all_schedules, d, q) = << <<600, 900>> >>

\* the (date, queue) entries of two schedules are the same
SameEntries(a, b) ==
    /\ \A d \in DOMAIN a : \A q \in DOMAIN a[d] :
          d \in DOMAIN b /\ q \in DOMAIN b[d] /\ b[d][q] = a[d][q]
    /\ \A d \in DOMAIN b : \A q \in DOMAIN b[d] :
          d \in DOMAIN a /\ q \in DOMAIN a[d]

\* C22: a prolong or early_start of a (day, group) that holds no interval
\* when it is applied is dropped without error: the step ends inside
\* apply_modifications, no entry is created for the group and the interval
\* set of every other group is the one it was
C22_UnresolvableDropped ==
    [][(pc = "mods" /\ modIdx <= Len(FlatMods(modifications_by_date))
        /\ FlatMods(modifications_by_date)[modIdx].mod.kind \in {"prolong", "early_start"}
        /\ SlotsOf(all_schedules, FlatMods(modifications_by_date)[modIdx].date,
                   FlatMods(modifications_by_date)[modIdx].queue) = <<>>)
       => /\ pc' = "mods"
          /\ SameEntries(all_schedules, all_schedules')]_vars

\* a prolong was applied to a group without entry while another group of
\* the day holds intervals, and the group still has no entry
C22_Witness ==
    /\ pc = "mods"
    /\ applied.kind = "prolong"
    /\ ~applied.present
    /\ applied.date \in DOMAIN all_schedules
    /\ applied.queue \notin DOMAIN all_schedules[applied.date]
    /\ \E q \in DOMAIN all_schedules[applied.date] :
          all_schedules[applied.date][q] # <<>>

\* every base interval announced on the page has valid times and start < end
ProperBases ==
    \A i \in 1..Len(batch) : \A j \in 1..Len(batch[i].sched) :
        LET r == RegularSlots(batch[i].sched[j][2])
        IN  \A k \in 1..Len(r) : ~SlotRaises(r[k]) /\ r[k][1] < r[k][2]

\* every interval of the set has start < end
StartBeforeEnd(time_slots) ==
    \A i \in 1..Len(time_slots) : time_slots[i][1] < time_slots[i][2]

\* C23: after any sequence of base claims and accepted modifications
\* (additional, prolong, early_start), every interval of every (day, group)
\* set has start < end, and the set is sorted with a strict gap between
\* consecutive intervals; here for pages whose base intervals all have
\* start < end
C23_SetsWellFormed ==
    (pc \in {"mods", "scraped"} /\ ProperBases) =>
        \A d \in DOMAIN all_schedules : \A q \in DOMAIN all_schedules[d] :
            /\ StartBeforeEnd(all_schedules[d][q])
            /\ SortedByStart(all_schedules[d][q])
            /\ StrictGaps(all_schedules[d][q])

\* the part of C23 that the modifications break: start < end
C23_StartBeforeEnd ==
    (pc \in {"mods", "scraped"} /\ ProperBases) =>
        \A d \in DOMAIN all_schedules : \A q \in DOMAIN all_schedules[d] :
            StartBeforeEnd(all_schedules[d][q])

\* the order of the starts, on any page
C23_SortedByStart ==
    pc \in {"mods", "scraped"} =>
        \A d \in DOMAIN all_schedules : \A q \in DOMAIN all_schedules[d] :
            SortedByStart(all_schedules[d][q])

\* the strict gaps, on any page
C23_StrictGaps ==
    (pc \in {"mods", "scraped"} /\ ProperBases) =>
        \A d \in DOMAIN all_schedules : \A q \in DOMAIN all_schedules[d] :
            StrictGaps(all_schedules[d][q])

\* C8 for every interval set a run can hand to modify_time_slots, the sets
\* an earlier modification left with an inverted interval included
C8_ProlongTargetAnySet ==
    (xType = "prolong" /\ ~xRaised) =>
        /\ Cardinality(ProlongChoices(xPrev, ModifyDate, xNow)) = 1
        /\ \A i \in ProlongChoices(xPrev, ModifyDate, xNow) :
              xSlots = combine_time_slots(ModifyDate,
                          [k \in 1..Len(xPrev) |->
                              IF k = i THEN <<xPrev[k][1], xTime>> ELSE xPrev[k]])

\* the base interval lies inside one interval of the set, an end of "24:00"
\* read as "23:59"
InsideOne(time_slots, slot) ==
    \E m \in 1..Len(time_slots) :
        time_slots[m][1] <= slot[1] /\ EndOfDay(slot[2]) <= time_slots[m][2]

\* the base intervals that message i announces for the (date, queue) and
\* that pass the date gate
AnnouncedBy(i, date, queue) ==
    IF MessageCounts(batch[i], now) /\ MessageDate(batch[i], now) = date
    THEN UNION {{RegularSlots(batch[i].sched[j][2])[k] :
                    k \in 1..Len(RegularSlots(batch[i].sched[j][2]))} :
                   j \in {n \in 1..Len(batch[i].sched) : batch[i].sched[n][1] = queue}}
    ELSE {}

\* C24: for every (day, group), the merged interval set handed to the
\* modification step covers every base interval announced for that
\* (day, group) anywhere in the batch, also when the base intervals arrive in
\* different announcements; here for the base intervals with start < end
C24_BasesCovered ==
    (pc = "mods" /\ modIdx = 1) =>
        \A d \in PageDates : \A q \in PageQueues : \A i \in 1..Len(batch) :
            \A s \in AnnouncedBy(i, d, q) :
                s[1] < s[2] => InsideOne(SlotsOf(all_schedules, d, q), s)

\* the same for the (day, group) pairs that one announcement of the batch
\* gives base intervals for
C24_OneAnnouncementCovered ==
    (pc = "mods" /\ modIdx = 1) =>
        \A d \in PageDates : \A q \in PageQueues :
            Cardinality({i \in 1..Len(batch) : AnnouncedBy(i, d, q) # {}}) <= 1 =>
                \A i \in 1..Len(batch) : \A s \in AnnouncedBy(i, d, q) :
                    s[1] < s[2] => InsideOne(SlotsOf(all_schedules, d, q), s)

\* two announcements gave base intervals for one (day, group) and the set
\* handed to the modification step covers those of the later one and misses
\* one of the earlier
C24_WitnessLater ==
    /\ pc = "mods"
    /\ modIdx = 1
    /\ Len(batch) = 2
    /\ \E d \in PageDates : \E q \in PageQueues :
          /\ AnnouncedBy(1, d, q) # {}
          /\ AnnouncedBy(2, d, q) # {}
          /\ \A s \in AnnouncedBy(1, d, q) \cup AnnouncedBy(2, d, q) : s[1] < s[2]
          /\ \A s \in AnnouncedBy(2, d, q) : InsideOne(SlotsOf(all_schedules, d, q), s)
          /\ \E s \in AnnouncedBy(1, d, q) : ~InsideOne(SlotsOf(all_schedules, d, q), s)

====
